---- MODULE Spec2Model ----
(***************************************************************************)
(* protovend: vendoring of .proto files from git repositories.             *)
(* The model covers the manifest (.protovend.yml), the lock               *)
(* (.protovend.lock), the git cache under REPOS_CACHE_DIRECTORY, the       *)
(* output tree vendor/proto and the commands of src/lib.rs.                *)
(***************************************************************************)
EXTENDS Integers, Sequences, FiniteSets, TLC

(***************************************************************************)
(* Strings are sequences of one-character strings, so that the url         *)
(* functions of src/git_url.rs can be computed character by character.     *)
(***************************************************************************)

\* The characters the model uses, in ascending byte order (String::cmp).
\* "U+00C9" and "U+00E9" stand for the letters E and e with an acute accent,
\* which are alphanumeric characters outside ASCII.
Alphabet ==
    << " ", "#", "-", ".", "/", "1", ":", "@", "A", "B", "_",
       "a", "b", "c", "e", "f", "g", "h", "i", "l", "n", "p", "r", "s", "t",
       "u", "x", "y", "~", "U+00C9", "U+00E9" >>

Ord(c) ==
    CHOOSE i \in 1..Len(Alphabet) : Alphabet[i] = c

\* str::cmp on two strings: lexicographic on bytes, a proper prefix is smaller.
RECURSIVE StrLess(_, _)
StrLess(s, t) ==
    IF t = <<>> THEN FALSE
    ELSE IF s = <<>> THEN TRUE
    ELSE IF Head(s) # Head(t) THEN Ord(Head(s)) < Ord(Head(t))
    ELSE StrLess(Tail(s), Tail(t))

\* char::to_lowercase on the characters of the alphabet.
ToLower(c) ==
    CASE c = "A" -> "a"
      [] c = "B" -> "b"
      [] c = "U+00C9" -> "U+00E9"
      [] OTHER -> c

\* char::is_alphanumeric on the characters of the alphabet.
IsAlphanumeric(c) ==
    c \in {"1", "A", "B", "a", "b", "c", "e", "f", "g", "h", "i", "l", "n",
            "p", "r", "s", "t", "u", "x", "y", "U+00C9", "U+00E9"}

IsPrefix(p, s) ==
    /\ Len(p) <= Len(s)
    /\ SubSeq(s, 1, Len(p)) = p

IsSuffix(p, s) ==
    /\ Len(p) <= Len(s)
    /\ SubSeq(s, Len(s) - Len(p) + 1, Len(s)) = p

Max(S) ==
    CHOOSE x \in S : \A y \in S : y <= x

(***************************************************************************)
(* GitUrl (src/git_url.rs)                                                 *)
(***************************************************************************)

\* The heads "scheme separator" the pattern accepts: (?:git|ssh|https?|git)(://|@)
UrlHeads ==
    LET schemes == { <<"g","i","t">>, <<"s","s","h">>,
                     <<"h","t","t","p">>, <<"h","t","t","p","s">> }
        seps == { <<":","/","/">>, <<"@">> }
    IN  { sc \o sp : sc \in schemes, sp \in seps }

\* A pattern that does not look at what follows ".git".
IsUrlTail_any(s) ==
    Len(s) >= 0

\* (/?|\#[-\d\w._]+?)$ : nothing, a slash, or # and one or more of [-\d\w._]
IsUrlTail(s) ==
    \/ s = <<>>
    \/ s = <<"/">>
    \/ /\ Len(s) >= 2
       /\ s[1] = "#"
       /\ \A i \in 2..Len(s) : IsAlphanumeric(s[i]) \/ s[i] \in {"-", ".", "_"}

\* The ways GIT_URL_PATTERN matches s, as <<hs, he, pe>>: the host is
\* s[hs..he], s[he+1] is ':' or '/', the path is s[he+2..pe] and holds a
\* '/', s[pe+1..pe+4] is ".git" and the rest is the tail.
UrlMatches(s) ==
    { m \in UNION { { <<Len(h) + 1, he, pe>> : he \in Len(h)..(Len(s) - 1),
                                                pe \in 1..(Len(s) - 4) } :
                    h \in { x \in UrlHeads : IsPrefix(x, s) } } :
        /\ s[m[2] + 1] \in {":", "/"}
        /\ m[3] >= m[2] + 2
        /\ \E k \in (m[2] + 2)..m[3] : s[k] = "/"
        /\ SubSeq(s, m[3] + 1, m[3] + 4) = <<".","g","i","t">>
        /\ IsUrlTail(SubSeq(s, m[3] + 5, Len(s))) }

\* Regex::is_match
IsGitUrl(s) ==
    UrlMatches(s) # {}

\* str::trim
RECURSIVE TrimStart(_)
TrimStart(s) ==
    IF s # <<>> /\ Head(s) = " " THEN TrimStart(Tail(s)) ELSE s

RECURSIVE TrimEnd(_)
TrimEnd(s) ==
    IF s # <<>> /\ s[Len(s)] = " " THEN TrimEnd(SubSeq(s, 1, Len(s) - 1)) ELSE s

\* GitUrl::from_str
from_str(s) ==
    [ok |-> IsGitUrl(TrimEnd(TrimStart(s))), url |-> TrimEnd(TrimStart(s))]

\* The match the regex engine reports: every group is greedy, so the host
\* (group 2) is the longest possible and then the path (group 3) is.
UrlCapture(s) ==
    LET he == Max({ m[2] : m \in UrlMatches(s) })
        pe == Max({ m[3] : m \in { x \in UrlMatches(s) : x[2] = he } })
        hs == CHOOSE a \in { m[1] : m \in UrlMatches(s) } : TRUE
    IN  [ host |-> SubSeq(s, hs, he), path |-> SubSeq(s, he + 2, pe) ]

host(u) ==
    UrlCapture(u).host

path(u) ==
    UrlCapture(u).path

\* path().to_lowercase().chars().filter(|c| c.is_alphanumeric() || *c == '/')
RECURSIVE SanitiseChars(_)
SanitiseChars(s) ==
    IF s = <<>> THEN <<>>
    ELSE IF IsAlphanumeric(ToLower(Head(s))) \/ ToLower(Head(s)) = "/"
         THEN <<ToLower(Head(s))>> \o SanitiseChars(Tail(s))
         ELSE SanitiseChars(Tail(s))

sanitised_path(u) ==
    SanitiseChars(path(u))

\* util::to_alpha_num keeps the alphanumeric characters of a string.
RECURSIVE to_alpha_num(_)
to_alpha_num(s) ==
    IF s = <<>> THEN <<>>
    ELSE IF IsAlphanumeric(Head(s))
         THEN <<Head(s)>> \o to_alpha_num(Tail(s))
         ELSE to_alpha_num(Tail(s))

(***************************************************************************)
(* The universe of the model: urls, branches, remote histories.            *)
(***************************************************************************)

\* "git@h:a/b.git"
U1 ==
    <<"g","i","t","@","h",":","a","/","b",".","g","i","t">>

\* "git@h:a/c.git"
U2 ==
    <<"g","i","t","@","h",":","a","/","c",".","g","i","t">>

\* "git@x:a/b.git": the path of the first url on another host.
U3 ==
    <<"g","i","t","@","x",":","a","/","b",".","g","i","t">>

Urls ==
    {U1, U2}

Branches ==
    {"main", "dev"}

\* Bounds of the model.
MaxTip == 2
MaxDeps == 2
MaxCmds == 2
MaxOps == 5

\* A remote repository is identified by the (host, path) of its url.
Repo(u) ==
    <<host(u), path(u)>>

Repos ==
    { Repo(u) : u \in Urls }

\* env::temp_dir().join(".protovend/repos"), written "/t/r".
REPOS_CACHE_DIRECTORY ==
    <<"/", "t", "/", "r">>

\* PathBuf::push: an absolute path replaces the whole path, an empty one adds
\* no component, any other is joined with a separator.
push(base, x) ==
    IF x = <<>> THEN base
    ELSE IF Head(x) = "/" THEN x
    ELSE base \o <<"/">> \o x

\* get_destination_path: REPOS_CACHE_DIRECTORY / to_alpha_num(host) / path
get_destination_path(u) ==
    push(push(REPOS_CACHE_DIRECTORY, to_alpha_num(host(u))), path(u))

\* The values derived from each url of the model, computed once.
GitUrl ==
    [u \in Urls \cup {U3} |-> [repo |-> Repo(u),
                     sanitised_path |-> sanitised_path(u),
                     destination_path |-> get_destination_path(u)]]

\* The n-th commit of a branch of a remote; histories only grow.
Commit(r, b, n) ==
    [repo |-> r, branch |-> b, n |-> n]

\* A commit string that names no commit of any remote ("thisIsAnOldHash").
BogusCommit ==
    [repo |-> <<>>, branch |-> "none", n |-> 0]

\* The content of an untracked or locally modified file in a working copy,
\* and of a file put into the output tree by hand.
JunkContent ==
    [repo |-> <<>>, branch |-> "junk", n |-> 0]

ManualContent ==
    [repo |-> <<>>, branch |-> "manual", n |-> 0]

\* File names.
XProto ==
    <<"x",".","p","r","o","t","o">>

YProto ==
    <<"y",".","p","r","o","t","o">>

ZProto ==
    <<"z",".","p","r","o","t","o">>

ReadmeTxt ==
    <<"r",".","t","x","t">>

\* A file of a tree: its directory below the proto root (a path string, empty
\* for the proto root itself), its name and its content.
File(d, f, c) ==
    [dir |-> d, name |-> f, content |-> c]

\* The files below proto/ of commit c. The histories are fixed:
\*   main 1: own/x.proto own/z.proto
\*   main 2: own/x.proto own/in/y.proto own/r.txt oth/z.proto
\*   dev  1: own/x.proto own/y.proto
\*   dev  2: own/x.proto and z.proto in the proto root   (breaks P001)
\*   on the second remote main 2 has oth/x.proto only    (breaks P002)
\* where own is the sanitised path of the repository.
Tree(c) ==
    LET own == SanitiseChars(c.repo[2])
        inner == own \o <<"/","i">>
        oth == <<"o">>
    IN  IF c.n = 0 THEN {}
        ELSE IF c.branch = "main" /\ c.n = 2 /\ c.repo = GitUrl[U2].repo
             THEN { File(oth, XProto, c) }
        ELSE IF c.branch = "main" /\ c.n = 2
             THEN { File(own, XProto, c), File(inner, YProto, c),
                    File(own, ReadmeTxt, c), File(oth, ZProto, c) }
        ELSE IF c.branch = "dev" /\ c.n = 1
             THEN { File(own, XProto, c), File(own, YProto, c) }
        ELSE IF c.branch = "dev" /\ c.n = 2
             THEN { File(own, XProto, c), File(<<>>, ZProto, c) }
        ELSE IF c.branch = "main" /\ c.n = 1
             THEN { File(own, XProto, c), File(own, ZProto, c) }
        ELSE { File(own, XProto, c) }

(***************************************************************************)
(* State                                                                   *)
(***************************************************************************)
VARIABLES
    manifest,     \* the file .protovend.yml
    lockfile,     \* the file .protovend.lock
    out,          \* the directory vendor/proto
    cache,        \* REPOS_CACHE_DIRECTORY: cache key -> working copy
    tip,          \* the remotes: repository -> branch -> number of commits
    now,          \* the clock read by Local::now()
    pc,           \* where the running command is
    cmd,          \* the running (or last) command and its url argument
    up,           \* the remotes that answer while the command runs
    lock,         \* the ProtovendLock the command holds in memory
    retained,     \* process_new_imports: entries kept by diff_lock
    added,        \* process_new_imports: added_entries of diff_lock
    new_entries,  \* process_new_imports: imports resolved so far
    idx,          \* ProtovendLock::vendor: position in self.imports
    result,       \* outcome of the last command
    ncmd,         \* number of commands run
    lock0,        \* history: the lock file when the command started
    out0,         \* history: the output tree when the command started
    mem0,         \* history: self.imports when update_imports was called
    wrote,        \* history: the command wrote the lock file
    log,          \* history: the vendoring steps of the command
    git,          \* history: the last call of get_repo
    manifest0,    \* history: the manifest file when the command started
    wrote_yml,    \* history: the command wrote the manifest file
    input,        \* the argument of a function applied on its own
    output,       \* what the function returned
    peer          \* a second instance of the tool, in another project

vars ==
    << manifest, lockfile, out, cache, tip, now, pc, cmd, up, lock, retained,
       added, new_entries, idx, result, ncmd, lock0, out0, mem0, wrote, log,
       git, manifest0, wrote_yml, input, output, peer >>

world ==
    << manifest, lockfile, out, cache, tip, now >>

\* The variables the commands of this instance leave alone: those of a
\* function applied on its own and the second instance.
call ==
    << input, output, peer >>

\* CARGO_PKG_VERSION; versions are numbered in ascending order.
CRATE_VERSION == 1

\* util::is_valid_version: the document asks for no newer tool than this one.
is_valid_version(v) ==
    v <= CRATE_VERSION

Dependency(u, b) ==
    [url |-> u, branch |-> b]

Import(u, b, c) ==
    [url |-> u, branch |-> b, commit |-> c]

\* Mutant of ImportEqDep: the branch is not compared.
ImportEqDepUrlOnly(import, dep) ==
    import.url = dep.url

\* impl PartialEq<Dependency> for Import
ImportEqDep(import, dep) ==
    import.url = dep.url /\ import.branch = dep.branch

NoUrl ==
    <<>>

\* The dependencies a manifest may hold: the branches that exist on the
\* remotes of the model.
Deps ==
    { Dependency(U1, "main"), Dependency(U1, "dev"), Dependency(U2, "main") }

(***************************************************************************)
(* Git backend (src/git.rs, src/git/commands.rs)                           *)
(***************************************************************************)

CacheKeys ==
    { get_destination_path(u) : u \in Urls }

\* A cache directory: absent, a directory that holds no repository, or a
\* clone of origin whose working copy is at head, with or without local
\* modifications and untracked files.
AbsentEntry ==
    [kind |-> "absent", origin |-> <<>>, head |-> BogusCommit, dirty |-> FALSE]

NonRepoEntry ==
    [kind |-> "nonrepo", origin |-> <<>>, head |-> BogusCommit, dirty |-> FALSE]

RepoEntry(r, c, d) ==
    [kind |-> "repo", origin |-> r, head |-> c, dirty |-> d]

\* The revision "HEAD" of get_latest_commit_sha.
HeadRev ==
    [repo |-> <<>>, branch |-> "HEAD", n |-> 0]

\* commands::fetch / commands::clone reach remote r and find branch b there.
RemoteHas(r, b) ==
    /\ r \in up
    /\ tip[r][b] > 0

\* repo.revparse_single(revision) in a clone of r that is at the tip of b.
\* Every import of the model pins a commit of its own branch or a commit that
\* does not exist, so the objects of the other branches are not tracked.
Resolves(r, b, rev) ==
    \/ rev = HeadRev
    \/ /\ rev.repo = r
       /\ rev.branch = b
       /\ rev.n >= 1
       /\ rev.n <= tip[r][b]

\* Mutant of MoveToRevision: the working copy stays at the tip of the branch.
MoveToRevisionSkipped(e, rev) ==
    e

\* "Move to specified revision": reset --hard to the revision.
MoveToRevision(e, rev) ==
    IF rev = HeadRev THEN e ELSE [e EXCEPT !.head = rev]

\* reset_local_repo_to_commit
reset_local_repo_to_commit(e, b, rev) ==
    IF e.kind # "repo"
    THEN [ok |-> FALSE, entry |-> e]                 \* Repository::open fails
    ELSE IF ~RemoteHas(e.origin, b)
    THEN [ok |-> FALSE, entry |-> e]                 \* commands::fetch fails
    ELSE LET e1 == RepoEntry(e.origin, Commit(e.origin, b, tip[e.origin][b]), FALSE)
         IN  IF Resolves(e.origin, b, rev)
             THEN [ok |-> TRUE, entry |-> MoveToRevision(e1, rev)]
             ELSE [ok |-> FALSE, entry |-> e1]

\* clone (create_dir_all, then git clone --branch) and the reset that follows
\* it in get_repo.
clone(u, b, rev) ==
    IF ~RemoteHas(GitUrl[u].repo, b)
    THEN [ok |-> FALSE, entry |-> NonRepoEntry]      \* the directory stays
    ELSE LET r == GitUrl[u].repo
             e1 == RepoEntry(r, Commit(r, b, tip[r][b]), FALSE)
         IN  IF Resolves(r, b, rev)
             THEN [ok |-> TRUE, entry |-> MoveToRevision(e1, rev)]
             ELSE [ok |-> FALSE, entry |-> e1]

\* get_repo on the cache directory e of url u
get_repo(e, u, b, rev) ==
    IF e.kind # "absent"
    THEN reset_local_repo_to_commit(e, b, rev)
    ELSE clone(u, b, rev)

\* The files below proto/ of a working copy.
WorkTree(e) ==
    IF e.kind # "repo" THEN {}
    ELSE IF e.dirty
    THEN { File(f.dir, f.name, JunkContent) : f \in Tree(e.head) }
             \cup { File(<<>>, ZProto, JunkContent) }
    ELSE Tree(e.head)

(***************************************************************************)
(* Structure checker (src/check.rs)                                        *)
(***************************************************************************)

\* Path::exists for the directory d below the proto root of the tree fs: git
\* tracks files only, so a directory exists when a file lies in or below it.
DirExists(fs, d) ==
    \E f \in fs : f.dir = d \/ IsPrefix(d \o <<"/">>, f.dir)

\* The proto root itself exists when the tree holds any file below it.
ProtoRootExists(fs) ==
    fs # {}

\* A directory tree below proto/: whether proto/ exists, the directories
\* below it that hold nothing, and the files.
ProtoTree(r, ds, fs) ==
    [root |-> r, dirs |-> ds, files |-> fs]

\* The tree of a git working copy: no directory is empty.
CheckedOut(fs) ==
    ProtoTree(ProtoRootExists(fs), {}, fs)

\* Path::exists for the directory d below the proto root of the tree t.
PathExists(t, d) ==
    \/ DirExists(t.files, d)
    \/ \E e \in t.dirs : e = d \/ IsPrefix(d \o <<"/">>, e)

\* Path::extension
Extension(name) ==
    LET dots == { i \in 1..Len(name) : name[i] = "." }
    IN  IF dots = {} \/ Max(dots) = 1 THEN <<>>
        ELSE SubSeq(name, Max(dots) + 1, Len(name))

\* check_proto_directory_structure
check_proto_directory_structure(t, u) ==
    IF ~PathExists(t, GitUrl[u].sanitised_path) THEN {"P002"} ELSE {}

\* check_root_proto_folder_has_no_protos, where fs::read_dir succeeds
check_root_proto_folder_has_no_protos(fs) ==
    IF \E f \in fs : f.dir = <<>> /\ Extension(f.name) = <<"p","r","o","t","o">>
    THEN {"P001"} ELSE {}

\* run_checks: Ok(()) only when no rule fails and no io error occurs. When
\* proto/ is missing fs::read_dir fails and run_checks returns that error
\* before report is called.
run_checks(t, u) ==
    IF ~t.root
    THEN [ok |-> FALSE, violations |-> {}]
    ELSE LET results == check_proto_directory_structure(t, u)
                            \cup check_root_proto_folder_has_no_protos(t.files)
         IN  [ok |-> results = {}, violations |-> results]

(***************************************************************************)
(* Vendoring (src/lock/vendor.rs)                                          *)
(***************************************************************************)

NoDir ==
    [exists |-> FALSE, files |-> {}]

\* Mutant of prepare_output_directory: the directory is created when it is
\* missing and is not emptied.
prepare_output_directory_kept ==
    [exists |-> TRUE, files |-> out.files]

\* prepare_output_directory
prepare_output_directory ==
    [exists |-> TRUE, files |-> {}]

\* A walk that takes every regular file, whatever its name.
EndsWithProto_any(name) ==
    Len(name) > 0

\* entry.file_name().ends_with(".proto")
EndsWithProto(name) ==
    IsSuffix(<<".","p","r","o","t","o">>, name)

\* A walk that starts at the proto root instead of proto/<sanitised path>.
ProtosBelow_root(fs, sp) ==
    { f \in fs : EndsWithProto(f.name) }

\* The files WalkDir finds below src_folder = proto/<sanitised path> and
\* find_and_copy_protos copies.
ProtosBelow(fs, sp) ==
    { f \in fs : /\ f.dir = sp \/ IsPrefix(sp \o <<"/">>, f.dir)
                 /\ EndsWithProto(f.name) }

\* fs::copy of the files cp into the tree o: a file of the same path is
\* overwritten. The destination of a file is dest_folder joined with its path
\* relative to src_folder, which is its path below the proto root.
CopyInto(o, cp) ==
    [exists |-> TRUE,
     files |-> { f \in o.files :
                   ~\E g \in cp : g.dir = f.dir /\ g.name = f.name } \cup cp]

\* find_and_copy_protos
find_and_copy_protos(fs, sp, o) ==
    IF ~DirExists(fs, sp)
    THEN [ok |-> FALSE, out |-> o]
    ELSE [ok |-> TRUE, out |-> CopyInto(o, ProtosBelow(fs, sp))]

(***************************************************************************)
(* Lock (src/lock.rs)                                                      *)
(***************************************************************************)

\* Vec::sort_by(|a, b| a.url.cmp(&b.url)): a stable sort by url.
RECURSIVE InsertByUrl(_, _)
InsertByUrl(sorted, x) ==
    IF sorted = <<>> THEN <<x>>
    ELSE IF StrLess(x.url, Head(sorted).url)
         THEN <<x>> \o sorted
         ELSE <<Head(sorted)>> \o InsertByUrl(Tail(sorted), x)

RECURSIVE SortByUrl(_)
SortByUrl(s) ==
    IF s = <<>> THEN <<>>
    ELSE InsertByUrl(SortByUrl(SubSeq(s, 1, Len(s) - 1)), s[Len(s)])

\* Vec::remove
RemoveAt(s, i) ==
    SubSeq(s, 1, i - 1) \o SubSeq(s, i + 1, Len(s))

\* Mutant of Position: only the first import is compared with the dependency.
PositionFirstOnly(imports, dep) ==
    IF imports # <<>> /\ ImportEqDep(imports[1], dep) THEN 1 ELSE 0

\* imports.iter().position(|import| import == dep); 0 stands for None
Position(imports, dep) ==
    IF \E i \in 1..Len(imports) : ImportEqDep(imports[i], dep)
    THEN CHOOSE i \in 1..Len(imports) :
            /\ ImportEqDep(imports[i], dep)
            /\ \A j \in 1..(i - 1) : ~ImportEqDep(imports[j], dep)
    ELSE 0

\* diff_lock: (retained_imports, deps that are left)
RECURSIVE diff_lock(_, _)
diff_lock(deps, imports) ==
    IF deps = <<>> THEN [retained |-> <<>>, added |-> <<>>]
    ELSE LET dep == Head(deps)
             position == Position(imports, dep)
         IN  IF position # 0
             THEN LET rest == diff_lock(Tail(deps), RemoveAt(imports, position))
                  IN  [retained |-> <<imports[position]>> \o rest.retained,
                       added |-> rest.added]
             ELSE LET rest == diff_lock(Tail(deps), imports)
                  IN  [retained |-> rest.retained,
                       added |-> <<dep>> \o rest.added]

\* Mutant of clear_imports: no import is removed.
clear_imports_none(imports, repo) ==
    imports

\* clear_imports: self.imports.retain(|import| import.url != repo)
RECURSIVE clear_imports(_, _)
clear_imports(imports, repo) ==
    IF imports = <<>> THEN <<>>
    ELSE IF Head(imports).url # repo
         THEN <<Head(imports)>> \o clear_imports(Tail(imports), repo)
         ELSE clear_imports(Tail(imports), repo)

\* clear_all_imports
clear_all_imports(imports) ==
    <<>>

\* format!("git@{}:{}.git", host, repo) of the legacy conversions
GithubUrl(h, r) ==
    <<"g", "i", "t", "@">> \o h \o <<":">> \o r \o <<".", "g", "i", "t">>

\* An entry of a current-format document: serde finds the fields of
\* Dependency (of Import, with commit).
IsCurrentEntry(e, withCommit) ==
    {"url", "branch"} \cup (IF withCommit THEN {"commit"} ELSE {}) \subseteq DOMAIN e

\* An entry of a legacy document: the fields of GithubDependency (of
\* GithubImport, with commit).
IsLegacyEntry(e, withCommit) ==
    {"repo", "host", "branch"} \cup (IF withCommit THEN {"commit"} ELSE {})
        \subseteq DOMAIN e

\* From<GithubDependency> for Dependency. GitUrl::from_str(..).unwrap()
\* panics on a string the pattern rejects.
FromGithubDependency(e) ==
    LET parsed == from_str(GithubUrl(e.host, e.repo))
    IN  [ok |-> parsed.ok, value |-> [url |-> parsed.url, branch |-> e.branch]]

\* From<GithubImport> for Import
FromGithubImport(e) ==
    LET parsed == from_str(GithubUrl(e.host, e.repo))
    IN  [ok |-> parsed.ok,
         value |-> [url |-> parsed.url, branch |-> e.branch, commit |-> e.commit]]

\* A load that returned Err, and one that panicked.
LoadErr ==
    [ok |-> FALSE, panic |-> FALSE]

LoadPanic ==
    [ok |-> FALSE, panic |-> TRUE]

\* load_lockfile: the untagged enum Lock tries the current format, then the
\* legacy one; the version is checked after the conversion.
load_lockfile(f) ==
    IF ~f.exists
    THEN [ok |-> TRUE, panic |-> FALSE,
          lock |-> [imports |-> <<>>, minver |-> CRATE_VERSION, updated |-> now]]
    ELSE IF \A i \in DOMAIN f.imports : IsCurrentEntry(f.imports[i], TRUE)
    THEN IF is_valid_version(f.minver)
         THEN [ok |-> TRUE, panic |-> FALSE,
               lock |-> [imports |-> [i \in DOMAIN f.imports |->
                                        Import(f.imports[i].url,
                                               f.imports[i].branch,
                                               f.imports[i].commit)],
                         minver |-> f.minver, updated |-> f.updated]]
         ELSE LoadErr
    ELSE IF \A i \in DOMAIN f.imports : IsLegacyEntry(f.imports[i], TRUE)
    THEN IF \E i \in DOMAIN f.imports : ~FromGithubImport(f.imports[i]).ok
         THEN LoadPanic
         ELSE IF is_valid_version(f.minver)
         THEN [ok |-> TRUE, panic |-> FALSE,
               lock |-> [imports |-> [i \in DOMAIN f.imports |->
                                        FromGithubImport(f.imports[i]).value],
                         minver |-> f.minver, updated |-> f.updated]]
         ELSE LoadErr
    ELSE LoadErr

\* Mutant of load_config: a missing or unreadable manifest counts as an empty
\* one.
load_config_default(f) ==
    [ok |-> TRUE, panic |-> FALSE,
     config |-> [minver |-> CRATE_VERSION, vendor |-> <<>>]]

\* load_config: the untagged enum Config tries the current format, the legacy
\* one, then the one whose vendor is null.
load_config(f) ==
    IF ~f.exists THEN LoadErr
    ELSE IF /\ ~f.vendor_null
            /\ \A i \in DOMAIN f.vendor : IsCurrentEntry(f.vendor[i], FALSE)
    THEN IF is_valid_version(f.minver)
         THEN [ok |-> TRUE, panic |-> FALSE,
               config |-> [minver |-> f.minver,
                           vendor |-> [i \in DOMAIN f.vendor |->
                                         Dependency(f.vendor[i].url,
                                                    f.vendor[i].branch)]]]
         ELSE LoadErr
    ELSE IF /\ ~f.vendor_null
            /\ \A i \in DOMAIN f.vendor : IsLegacyEntry(f.vendor[i], FALSE)
    THEN IF \E i \in DOMAIN f.vendor : ~FromGithubDependency(f.vendor[i]).ok
         THEN LoadPanic
         ELSE IF is_valid_version(f.minver)
         THEN [ok |-> TRUE, panic |-> FALSE,
               config |-> [minver |-> f.minver,
                           vendor |-> [i \in DOMAIN f.vendor |->
                                         FromGithubDependency(f.vendor[i]).value]]]
         ELSE LoadErr
    ELSE IF f.vendor_null
    THEN IF is_valid_version(f.minver)
         THEN [ok |-> TRUE, panic |-> FALSE,
               config |-> [minver |-> f.minver, vendor |-> <<>>]]
         ELSE LoadErr
    ELSE LoadErr

\* Mutant of write: the list is written in the order it has in memory.
write_unsorted(l) ==
    [imports |-> l.imports, minver |-> l.minver, updated |-> now]

\* ProtovendLock::write: the list is sorted, the time is taken, the file is
\* written.
write(l) ==
    [imports |-> SortByUrl(l.imports), minver |-> l.minver, updated |-> now]

AsFile(l) ==
    [exists |-> TRUE, imports |-> l.imports, minver |-> l.minver,
     updated |-> l.updated]

(***************************************************************************)
(* Manifest (src/config.rs)                                                *)
(***************************************************************************)

\* ProtovendConfig::write: the dependencies are sorted by url and the file
\* is written in the current format.
config_write(config) ==
    [exists |-> TRUE, minver |-> config.minver,
     vendor |-> SortByUrl(config.vendor), vendor_null |-> FALSE]

\* Mutant of FindByUrl: an entry is found only if its branch is the given one
\* too.
FindByUrlAndBranch(vendor, url, branch) ==
    { i \in DOMAIN vendor : vendor[i].url = url /\ vendor[i].branch = branch }

\* self.vendor.iter_mut().find(|dep| dep.url == url): the positions of the
\* entries the closure accepts; find takes the first.
FindByUrl(vendor, url, branch) ==
    { i \in DOMAIN vendor : vendor[i].url = url }

\* Mutant of add_dependency: the file is written also when the dependency is
\* there already.
add_dependency_rewriting(config, url, branch) ==
    LET found == FindByUrl(config.vendor, url, branch)
    IN  IF found # {}
        THEN LET i == CHOOSE k \in found : \A j \in found : k <= j
             IN  [config |-> [config EXCEPT !.vendor[i].branch = branch],
                  written |-> TRUE]
        ELSE [config |-> [config EXCEPT
                            !.vendor = Append(@, Dependency(url, branch))],
              written |-> TRUE]

\* ProtovendConfig::add_dependency: the configuration it leaves and whether
\* it wrote the file.
add_dependency(config, url, branch) ==
    LET found == FindByUrl(config.vendor, url, branch)
    IN  IF found # {}
        THEN LET i == CHOOSE k \in found : \A j \in found : k <= j
             IN  IF config.vendor[i].branch = branch
                 THEN [config |-> config, written |-> FALSE]
                 ELSE [config |-> [config EXCEPT !.vendor[i].branch = branch],
                       written |-> TRUE]
        ELSE [config |-> [config EXCEPT
                            !.vendor = Append(@, Dependency(url, branch))],
              written |-> TRUE]

\* config::init: the manifest it leaves.
config_init(f) ==
    IF f.exists THEN f
    ELSE config_write([minver |-> CRATE_VERSION, vendor |-> <<>>])

(***************************************************************************)
(* Commands (src/lib.rs), one step at a time                               *)
(***************************************************************************)

NoResult ==
    [status |-> "none", at |-> "none"]

Ok ==
    [status |-> "ok", at |-> "none"]

Err(where) ==
    [status |-> "err", at |-> where]

\* The process aborted on an unwrap of an Err.
Panic(where) ==
    [status |-> "panic", at |-> where]

NoCmd ==
    [name |-> "none", url |-> NoUrl]

NoLock ==
    [imports |-> <<>>, minver |-> CRATE_VERSION, updated |-> 0]

\* No second instance runs.
NoPeer ==
    [pc |-> "idle", imports |-> <<>>, idx |-> 0, out |-> [exists |-> FALSE,
                                                          files |-> {}],
     result |-> NoResult]

\* No manifest file.
NoManifest ==
    [exists |-> FALSE, minver |-> CRATE_VERSION, vendor |-> <<>>,
     vendor_null |-> FALSE]

NoFile ==
    [exists |-> FALSE, imports |-> <<>>, minver |-> CRATE_VERSION, updated |-> 0]

\* No function has been applied on its own.
NoCall ==
    [fn |-> "none"]

NoGit ==
    [called |-> FALSE, url |-> NoUrl, branch |-> "none", rev |-> BogusCommit,
     before |-> AbsentEntry, ok |-> FALSE]

\* The record of a call get_repo(u, b, rev) that found the cache directory e.
GitCall(u, b, rev, e, ok) ==
    [called |-> TRUE, url |-> u, branch |-> b, rev |-> rev, before |-> e,
     ok |-> ok]

\* The command ends: run_command returns to main.
Return(r) ==
    /\ pc' = "idle"
    /\ result' = r
    /\ ncmd' = ncmd + 1

\* Mutant of vendor_import: the files are copied before the check runs.
vendor_import_copy_first ==
    <<"checkout", "copy", "check">>

\* vendor_import runs these steps in this order; an Err of one ends it.
vendor_import ==
    <<"checkout", "check", "copy">>

StepIndex(step) ==
    CHOOSE i \in 1..Len(vendor_import) : vendor_import[i] = step

\* The step has succeeded: what ProtovendLock::vendor runs next.
Advance(step) ==
    IF StepIndex(step) < Len(vendor_import)
    THEN /\ pc' = vendor_import[StepIndex(step) + 1]
         /\ UNCHANGED << idx, result, ncmd >>
    ELSE IF idx < Len(lock.imports)
    THEN /\ pc' = vendor_import[1]
         /\ idx' = idx + 1
         /\ UNCHANGED << result, ncmd >>
    ELSE /\ idx' = idx + 1
         /\ Return(Ok)

Event(step, ok) ==
    [op |-> step, i |-> idx, ok |-> ok]

\* install and update up to the call of process_new_imports: the manifest and
\* the lock are loaded, update clears imports, diff_lock splits the
\* dependencies. The remotes in reach answer while the command runs.
Begin(name, url, reach) ==
    /\ pc = "idle"
    /\ ncmd < MaxCmds
    /\ cmd' = [name |-> name, url |-> url]
    /\ up' = reach
    /\ lock0' = lockfile
    /\ out0' = out
    /\ wrote' = FALSE
    /\ log' = <<>>
    /\ git' = NoGit
    /\ idx' = 0
    /\ new_entries' = <<>>
    /\ manifest0' = manifest
    /\ wrote_yml' = FALSE
    /\ UNCHANGED << world, call >>
    /\ IF ~load_config(manifest).ok \/ ~load_lockfile(lockfile).ok
       THEN /\ Return(IF \/ load_config(manifest).panic
                         \/ /\ load_config(manifest).ok
                            /\ load_lockfile(lockfile).panic
                      THEN Panic("load") ELSE Err("load"))
            /\ lock' = NoLock
            /\ mem0' = <<>>
            /\ retained' = <<>>
            /\ added' = <<>>
       ELSE LET loaded == load_lockfile(lockfile).lock
                imports == IF name # "update" THEN loaded.imports
                           ELSE IF url = NoUrl
                                THEN clear_all_imports(loaded.imports)
                                ELSE clear_imports(loaded.imports, url)
                d == diff_lock(load_config(manifest).config.vendor, imports)
            IN  /\ lock' = [loaded EXCEPT !.imports = imports]
                /\ mem0' = imports
                /\ retained' = d.retained
                /\ added' = d.added
                /\ pc' = "resolve"
                /\ result' = NoResult
                /\ UNCHANGED ncmd

\* What a command that runs in one step leaves of the command before it.
OneStep(name) ==
    /\ pc = "idle"
    /\ ncmd < MaxOps
    /\ up' = {}
    /\ lock' = NoLock
    /\ retained' = <<>>
    /\ added' = <<>>
    /\ new_entries' = <<>>
    /\ idx' = 0
    /\ mem0' = <<>>
    /\ log' = <<>>
    /\ git' = NoGit
    /\ manifest0' = manifest
    /\ lock0' = lockfile
    /\ out0' = out
    /\ UNCHANGED << out, cache, tip, call >>

\* lib::init: config::init()?; lock::init()
init ==
    /\ OneStep("init")
    /\ cmd' = [name |-> "init", url |-> NoUrl]
    /\ manifest' = config_init(manifest)
    /\ wrote_yml' = ~manifest.exists
    /\ IF lockfile.exists
       THEN /\ wrote' = FALSE
            /\ UNCHANGED << lockfile, now >>
       ELSE /\ lockfile' = AsFile(write([imports |-> <<>>,
                                         minver |-> CRATE_VERSION,
                                         updated |-> now]))
            /\ now' = now + 1
            /\ wrote' = TRUE
    /\ Return(Ok)

\* lib::add: config::get_config()?.add_dependency(url, branch)
add ==
    \E url \in Urls, branch \in Branches :
        /\ OneStep("add")
        /\ cmd' = [name |-> "add", url |-> url, branch |-> branch]
        /\ wrote' = FALSE
        /\ UNCHANGED << lockfile, now >>
        /\ LET loaded == load_config(manifest)
           IN  IF ~loaded.ok
               THEN /\ Return(IF loaded.panic THEN Panic("load") ELSE Err("load"))
                    /\ wrote_yml' = FALSE
                    /\ UNCHANGED manifest
               ELSE LET res == add_dependency(loaded.config, url, branch)
                    IN  /\ manifest' = IF res.written
                                       THEN config_write(res.config)
                                       ELSE manifest
                        /\ wrote_yml' = res.written
                        /\ Return(Ok)

install ==
    \E reach \in SUBSET Repos : Begin("install", NoUrl, reach)

update ==
    \E url \in Urls \cup {NoUrl}, reach \in SUBSET Repos :
        Begin("update", url, reach)

\* Mutant of to_import: the lock file is written after each resolved import.
to_import_persisting ==
    /\ pc = "resolve"
    /\ Len(new_entries) < Len(added)
    /\ LET dep == added[Len(new_entries) + 1]
           key == GitUrl[dep.url].destination_path
           got == get_repo(cache[key], dep.url, dep.branch, HeadRev)
       IN  /\ cache' = [cache EXCEPT ![key] = got.entry]
           /\ git' = GitCall(dep.url, dep.branch, HeadRev, cache[key], got.ok)
           /\ IF got.ok
              THEN /\ new_entries' =
                        Append(new_entries,
                               Import(dep.url, dep.branch, got.entry.head))
                   /\ lockfile' = AsFile(write([lock EXCEPT !.imports =
                                                  retained \o new_entries']))
                   /\ UNCHANGED << pc, result, ncmd >>
              ELSE /\ Return(Err("lookup"))
                   /\ UNCHANGED << new_entries, lockfile >>
    /\ UNCHANGED << manifest, out, tip, now, cmd, up, lock, retained,
                    added, idx, lock0, out0, mem0, wrote, log, call,
                    manifest0, wrote_yml >>

\* to_import for the next of added_entries: get_latest_commit_sha checks out
\* HEAD of the branch in the cache and reads the commit of HEAD.
to_import ==
    /\ pc = "resolve"
    /\ Len(new_entries) < Len(added)
    /\ LET dep == added[Len(new_entries) + 1]
           key == GitUrl[dep.url].destination_path
           got == get_repo(cache[key], dep.url, dep.branch, HeadRev)
       IN  /\ cache' = [cache EXCEPT ![key] = got.entry]
           /\ git' = GitCall(dep.url, dep.branch, HeadRev, cache[key], got.ok)
           /\ IF got.ok
              THEN /\ new_entries' =
                        Append(new_entries,
                               Import(dep.url, dep.branch, got.entry.head))
                   /\ UNCHANGED << pc, result, ncmd >>
              ELSE /\ Return(Err("lookup"))
                   /\ UNCHANGED new_entries
    /\ UNCHANGED << manifest, lockfile, out, tip, now, cmd, up, lock, retained,
                    added, idx, lock0, out0, mem0, wrote, log, call,
                    manifest0, wrote_yml >>

\* Mutant of ImportsDiffer: only the lengths of the lists are compared.
ImportsDifferInLength(new_imports, imports) ==
    Len(new_imports) # Len(imports)

\* The comparison of update_imports: Vec<Import> != Vec<Import>
ImportsDiffer(new_imports, imports) ==
    new_imports # imports

\* update_imports once every added entry is resolved: the new list replaces
\* the old one and the lock is written when the two differ.
update_imports ==
    /\ pc = "resolve"
    /\ Len(new_entries) = Len(added)
    /\ LET new_imports == retained \o new_entries
       IN  IF ImportsDiffer(new_imports, lock.imports)
           THEN /\ lock' = write([lock EXCEPT !.imports = new_imports])
                /\ lockfile' = AsFile(lock')
                /\ now' = now + 1
                /\ wrote' = TRUE
           ELSE UNCHANGED << lock, lockfile, now, wrote >>
    /\ pc' = "prepare"
    /\ UNCHANGED << manifest, out, cache, tip, cmd, up, retained, added,
                    new_entries, idx, result, ncmd, lock0, out0, mem0, log,
                    git, call,
                    manifest0, wrote_yml >>

\* ProtovendLock::vendor up to its loop: the output directory is emptied.
vendor ==
    /\ pc = "prepare"
    /\ out' = prepare_output_directory
    /\ IF lock.imports = <<>>
       THEN /\ Return(Ok)
            /\ UNCHANGED idx
       ELSE /\ pc' = vendor_import[1]
            /\ idx' = 1
            /\ UNCHANGED << result, ncmd >>
    /\ UNCHANGED << manifest, lockfile, cache, tip, now, cmd, up, lock,
                    retained, added, new_entries, lock0, out0, mem0, wrote,
                    log, git, call,
                    manifest0, wrote_yml >>

\* vendor_import: git::get_repo(&import.url, &import.branch, &import.commit)
checkout ==
    /\ pc = "checkout"
    /\ LET import == lock.imports[idx]
           key == GitUrl[import.url].destination_path
           got == get_repo(cache[key], import.url, import.branch, import.commit)
       IN  /\ cache' = [cache EXCEPT ![key] = got.entry]
           /\ log' = Append(log, Event("checkout", got.ok))
           /\ git' = GitCall(import.url, import.branch, import.commit,
                             cache[key], got.ok)
           /\ IF got.ok
              THEN Advance("checkout")
              ELSE Return(Err("checkout")) /\ UNCHANGED idx
    /\ UNCHANGED << manifest, lockfile, out, tip, now, cmd, up, lock, retained,
                    added, new_entries, lock0, out0, mem0, wrote, call,
                    manifest0, wrote_yml >>

\* vendor_import: check::run_checks(clone_location, &import.url)
check ==
    /\ pc = "check"
    /\ LET import == lock.imports[idx]
           key == GitUrl[import.url].destination_path
           res == run_checks(CheckedOut(WorkTree(cache[key])), import.url)
       IN  /\ log' = Append(log, Event("check", res.ok))
           /\ IF res.ok
              THEN Advance("check")
              ELSE Return(Err("check")) /\ UNCHANGED idx
    /\ UNCHANGED << world, cmd, up, lock, retained, added, new_entries, lock0,
                    out0, mem0, wrote, git, call,
                    manifest0, wrote_yml >>

\* vendor_import: find_and_copy_protos(&src_folder, &dest_folder)
copy ==
    /\ pc = "copy"
    /\ LET import == lock.imports[idx]
           key == GitUrl[import.url].destination_path
           res == find_and_copy_protos(WorkTree(cache[key]),
                                       GitUrl[import.url].sanitised_path, out)
       IN  /\ out' = res.out
           /\ log' = Append(log, Event("copy", res.ok))
           /\ IF res.ok
              THEN Advance("copy")
              ELSE Return(Err("copy")) /\ UNCHANGED idx
    /\ UNCHANGED << manifest, lockfile, cache, tip, now, cmd, up, lock,
                    retained, added, new_entries, lock0, out0, mem0, wrote,
                    git, call,
                    manifest0, wrote_yml >>

(***************************************************************************)
(* The environment, between two commands                                   *)
(***************************************************************************)

\* What is left of the last command is forgotten.
Forget ==
    /\ cmd' = NoCmd
    /\ up' = {}
    /\ lock' = NoLock
    /\ retained' = <<>>
    /\ added' = <<>>
    /\ new_entries' = <<>>
    /\ idx' = 0
    /\ result' = NoResult
    /\ lock0' = NoFile
    /\ out0' = NoDir
    /\ mem0' = <<>>
    /\ wrote' = FALSE
    /\ log' = <<>>
    /\ git' = NoGit
    /\ manifest0' = NoManifest
    /\ wrote_yml' = FALSE
    /\ UNCHANGED << pc, ncmd, call >>

\* A commit is pushed to a branch of a remote.
Push ==
    /\ pc = "idle"
    /\ ncmd < MaxCmds
    /\ \E d \in Deps :
          /\ tip[GitUrl[d.url].repo][d.branch] < MaxTip
          /\ tip' = [tip EXCEPT ![GitUrl[d.url].repo][d.branch] = @ + 1]
    /\ Forget
    /\ UNCHANGED << manifest, lockfile, out, cache, now >>

\* Someone edits the working copies of the cache and puts a file of their own
\* into the output tree.
Tamper ==
    /\ pc = "idle"
    /\ ncmd < MaxCmds
    /\ \/ /\ \E k \in CacheKeys :
                /\ cache[k].kind = "repo"
                /\ ~cache[k].dirty
                /\ cache' = [cache EXCEPT ![k].dirty = TRUE]
          /\ UNCHANGED out
       \/ /\ out.exists
          /\ out' = CopyInto(out, { File(<<"m">>, XProto, ManualContent) })
          /\ UNCHANGED cache
    /\ Forget
    /\ UNCHANGED << manifest, lockfile, tip, now >>

(***************************************************************************)
(* Specification                                                           *)
(***************************************************************************)

\* The imports a hand-written lock may hold.
Imports ==
    { Import(U1, "main", Commit(GitUrl[U1].repo, "main", 1)),
      Import(U2, "main", Commit(GitUrl[U2].repo, "main", 1)),
      Import(U1, "main", BogusCommit) }

SeqsUpTo(S, n) ==
    UNION { [1..k -> S] : k \in 0..n }

Init ==
    /\ manifest \in { [exists |-> TRUE, minver |-> CRATE_VERSION, vendor |-> v,
                         vendor_null |-> FALSE] :
                        v \in SeqsUpTo(Deps, MaxDeps) }
    /\ lockfile \in {NoFile} \cup
            { [exists |-> TRUE, imports |-> i, minver |-> CRATE_VERSION,
               updated |-> 0] : i \in SeqsUpTo(Imports, MaxDeps) }
    /\ out = NoDir
    /\ cache = [k \in CacheKeys |-> AbsentEntry]
    /\ tip = [r \in Repos |-> [b \in Branches |->
                IF \E d \in Deps : GitUrl[d.url].repo = r /\ d.branch = b
                THEN 1 ELSE 0]]
    /\ now = 1
    /\ pc = "idle"
    /\ cmd = NoCmd
    /\ up = {}
    /\ lock = NoLock
    /\ retained = <<>>
    /\ added = <<>>
    /\ new_entries = <<>>
    /\ idx = 0
    /\ result = NoResult
    /\ ncmd = 0
    /\ lock0 = NoFile
    /\ out0 = NoDir
    /\ mem0 = <<>>
    /\ wrote = FALSE
    /\ log = <<>>
    /\ git = NoGit
    /\ manifest0 = NoManifest
    /\ wrote_yml = FALSE
    /\ input = NoCall
    /\ output = NoCall
    /\ peer = NoPeer

Next ==
    \/ install
    \/ update
    \/ to_import
    \/ update_imports
    \/ vendor
    \/ checkout
    \/ check
    \/ copy
    \/ Push
    \/ Tamper

Spec ==
    Init /\ [][Next]_vars

\* A project directory in any of the states a command may find it in: with
\* or without a manifest and a lock, written by hand or by an older tool, in
\* the current or the legacy format, for this version of the tool or a newer
\* one.
NewerVersion ==
    CRATE_VERSION + 1

Manifest(v, entries) ==
    [exists |-> TRUE, minver |-> v, vendor |-> entries, vendor_null |-> FALSE]

LockFile(v, entries) ==
    [exists |-> TRUE, imports |-> entries, minver |-> v, updated |-> 0]

ProjectManifests ==
    { NoManifest,
      Manifest(CRATE_VERSION, <<>>),
      Manifest(CRATE_VERSION, << Dependency(U1, "main") >>),
      Manifest(CRATE_VERSION, << Dependency(U2, "main"), Dependency(U1, "main") >>),
      Manifest(CRATE_VERSION, << Dependency(U1, "main"), Dependency(U1, "dev") >>),
      Manifest(NewerVersion, << Dependency(U1, "main") >>),
      Manifest(CRATE_VERSION,
               << [repo |-> <<"a", "/", "b">>, host |-> <<"h">>,
                   branch |-> "main"] >>),
      Manifest(CRATE_VERSION, << [vendor |-> "junk"] >>),
      [exists |-> TRUE, minver |-> CRATE_VERSION, vendor |-> <<>>,
       vendor_null |-> TRUE] }

ProjectLocks ==
    { NoFile,
      LockFile(CRATE_VERSION, <<>>),
      LockFile(CRATE_VERSION,
               << Import(U1, "main", Commit(GitUrl[U1].repo, "main", 1)) >>),
      LockFile(NewerVersion,
               << Import(U1, "main", Commit(GitUrl[U1].repo, "main", 1)) >>),
      LockFile(CRATE_VERSION,
               << [repo |-> <<"a", "/", "b">>, host |-> <<"h">>,
                   branch |-> "main",
                   commit |-> Commit(GitUrl[U1].repo, "main", 1)] >>) }

InitProject ==
    /\ manifest \in ProjectManifests
    /\ lockfile \in ProjectLocks
    /\ out = NoDir
    /\ cache = [k \in CacheKeys |-> AbsentEntry]
    /\ tip = [r \in Repos |-> [b \in Branches |->
                IF \E d \in Deps : GitUrl[d.url].repo = r /\ d.branch = b
                THEN 1 ELSE 0]]
    /\ now = 1
    /\ pc = "idle"
    /\ cmd = NoCmd
    /\ up = {}
    /\ lock = NoLock
    /\ retained = <<>>
    /\ added = <<>>
    /\ new_entries = <<>>
    /\ idx = 0
    /\ result = NoResult
    /\ ncmd = 0
    /\ lock0 = NoFile
    /\ out0 = NoDir
    /\ mem0 = <<>>
    /\ wrote = FALSE
    /\ log = <<>>
    /\ git = NoGit
    /\ manifest0 = NoManifest
    /\ wrote_yml = FALSE
    /\ input = NoCall
    /\ output = NoCall
    /\ peer = NoPeer

NextProject ==
    \/ init
    \/ add
    \/ install
    \/ update
    \/ to_import
    \/ update_imports
    \/ vendor
    \/ checkout
    \/ check
    \/ copy

SpecProject ==
    InitProject /\ [][NextProject]_vars

\* An empty directory in which only init and add are run.
InitManifest ==
    /\ manifest = NoManifest
    /\ lockfile = NoFile
    /\ InitProject

NextManifest ==
    \/ init
    \/ add

SpecManifest ==
    InitManifest /\ [][NextManifest]_vars

(***************************************************************************)
(* Properties                                                              *)
(***************************************************************************)

Range(s) ==
    { s[i] : i \in DOMAIN s }

\* How often x occurs in the sequence s.
Occurrences(s, x) ==
    Cardinality({ i \in DOMAIN s : s[i] = x })

\* The import is one of the dependency: same url, same branch.
IsImportOf(import, dep) ==
    import.url = dep.url /\ import.branch = dep.branch

\* How many of the imports have the url and branch of dep.
Matches(imports, dep) ==
    Cardinality({ j \in DOMAIN imports : IsImportOf(imports[j], dep) })

SameEntries(s, t) ==
    \A x \in Range(s) \cup Range(t) : Occurrences(s, x) = Occurrences(t, x)

\* process_new_imports has resolved every added entry and returns Ok(entries):
\* lock.imports is still the list update_imports was called with.
Reconciled ==
    /\ pc = "resolve"
    /\ Len(new_entries) = Len(added)

\* The list process_new_imports returns.
Entries ==
    retained \o new_entries

\* C1 as stated: a manifest dependency for which the existing lock holds an
\* import of the same url and branch is never looked up, and the resulting
\* list holds such an import of the existing lock.
C1_Original ==
    Reconciled =>
        \A i \in DOMAIN manifest.vendor :
            LET dep == manifest.vendor[i]
            IN  Matches(lock.imports, dep) > 0 =>
                    /\ dep \notin Range(added)
                    /\ \E j \in DOMAIN lock.imports :
                          /\ IsImportOf(lock.imports[j], dep)
                          /\ lock.imports[j] \in Range(Entries)

\* C1 amended: each import is retained for one dependency only. A dependency
\* whose (url, branch) the manifest lists n times and the existing lock m
\* times is looked up for n - m of its occurrences (none when n <= m), and
\* the first min(n, m) imports of that url and branch are retained, with their
\* commits.
C1_Retained ==
    Reconciled =>
        \A dep \in Range(manifest.vendor) :
            LET n == Occurrences(manifest.vendor, dep)
                m == Matches(lock.imports, dep)
            IN  /\ Occurrences(added, dep) = IF n <= m THEN 0 ELSE n - m
                /\ \A j \in DOMAIN lock.imports :
                      ( /\ IsImportOf(lock.imports[j], dep)
                        /\ Matches(SubSeq(lock.imports, 1, j), dep) <= n )
                      => Occurrences(retained, lock.imports[j]) >=
                            Occurrences(SubSeq(lock.imports, 1, j), lock.imports[j])

\* A reconciliation that retains an import whose branch has advanced on the
\* remote and looks another dependency up.
C1_Witness ==
    /\ Reconciled
    /\ added # <<>>
    /\ \E k \in DOMAIN retained :
          /\ retained[k].commit.n >= 1
          /\ retained[k].commit.n <
                tip[GitUrl[retained[k].url].repo][retained[k].branch]

\* No two entries of the list have the same url.
NoRepeatedUrl(s) ==
    \A i, j \in DOMAIN s : i # j => s[i].url # s[j].url

\* The command has returned.
Returned ==
    pc = "idle" /\ result # NoResult

\* The files below the proto directory of a dependency at a commit.
PinnedProtos(import) ==
    { f \in Tree(import.commit) :
        /\ \/ f.dir = GitUrl[import.url].sanitised_path
           \/ IsPrefix(GitUrl[import.url].sanitised_path \o <<"/">>, f.dir)
        /\ IsSuffix(<<".", "p", "r", "o", "t", "o">>, f.name) }

\* The output tree that holds, for each import of the list in turn, the files
\* of the import's pinned commit, a later import overwriting the files of an
\* earlier one of the same path, and nothing else.
RECURSIVE VendoredFiles(_)
VendoredFiles(imports) ==
    IF imports = <<>> THEN {}
    ELSE LET import == imports[Len(imports)]
             before == VendoredFiles(SubSeq(imports, 1, Len(imports) - 1))
         IN  { f \in before :
                 ~\E g \in PinnedProtos(import) :
                     g.dir = f.dir /\ g.name = f.name }
                \cup PinnedProtos(import)

Vendored(imports) ==
    [exists |-> TRUE, files |-> VendoredFiles(imports)]

\* C2 as stated, for manifests and locks that list no url twice: when every
\* dependency has an import of its url and branch in the lock and every import
\* has such a dependency, whatever the order of the two lists, install looks
\* nothing up and leaves the lock file as it was.
C2_Original ==
    ( /\ cmd.name = "install"
      /\ pc = "prepare"
      /\ lock0.exists
      /\ NoRepeatedUrl(manifest.vendor)
      /\ NoRepeatedUrl(lock0.imports)
      /\ \A dep \in Range(manifest.vendor) : Matches(lock0.imports, dep) > 0
      /\ \A import \in Range(lock0.imports) :
            \E dep \in Range(manifest.vendor) : IsImportOf(import, dep) )
    => /\ added = <<>>
       /\ ~wrote
       /\ lockfile = lock0

\* C3: after a successful install the output tree holds, for every import of
\* the lock, the .proto files of the import's pinned commit, wherever the
\* branch has moved to on the remote and whatever the cache held before.
C3_Pinned ==
    ( /\ Returned
      /\ cmd.name = "install"
      /\ result = Ok )
    => /\ out = Vendored(lockfile.imports)
       /\ \A import \in Range(lockfile.imports) :
             \E dep \in Range(manifest.vendor) : IsImportOf(import, dep)

\* A successful install of an import pinned behind the tip of its branch, on a
\* cache whose working copy was at another commit, that vendored files.
C3_Witness ==
    /\ Returned
    /\ cmd.name = "install"
    /\ result = Ok
    /\ added = <<>>
    /\ git.called
    /\ git.before.kind = "repo"
    /\ git.before.head # git.rev
    /\ git.rev.n >= 1
    /\ git.rev.n < tip[GitUrl[git.url].repo][git.branch]
    /\ PinnedProtos(lockfile.imports[Len(lockfile.imports)]) # {}
    /\ out.files # {}

\* C4: when the lookup of a dependency fails, the lock file is not written,
\* no later dependency is looked up and the output directory is left as it
\* was.
C4_LookupFailure ==
    ( /\ Returned
      /\ result = Err("lookup") )
    => /\ lockfile = lock0
       /\ ~wrote
       /\ out = out0
       /\ Len(new_entries) < Len(added)
       /\ log = <<>>

\* An update whose first lookup succeeded and whose second failed, with a lock
\* file and vendored files on disk.
C4_Witness ==
    /\ Returned
    /\ result = Err("lookup")
    /\ cmd.name = "update"
    /\ new_entries # <<>>
    /\ lock0.exists
    /\ lock0.imports # <<>>
    /\ out0.files # {}

\* The commit at the tip of the branch of the dependency on its remote.
TipOf(dep) ==
    Commit(GitUrl[dep.url].repo, dep.branch,
           tip[GitUrl[dep.url].repo][dep.branch])

\* C5: for a manifest with at most one entry per url, the list reconciliation
\* produces holds exactly one import per dependency and no other; only the
\* dependencies without an import of their url and branch in the existing
\* lock are looked up, each at the tip of its branch; an import whose url left
\* the manifest or whose branch changed there is dropped; and the list
\* becomes the import list of the lock.
C5_Postcondition ==
    /\ ( Reconciled /\ NoRepeatedUrl(manifest.vendor) ) =>
          /\ Len(Entries) = Len(manifest.vendor)
          /\ \A dep \in Range(manifest.vendor) : Matches(Entries, dep) = 1
          /\ \A import \in Range(Entries) :
                \E dep \in Range(manifest.vendor) : IsImportOf(import, dep)
          /\ \A dep \in Range(manifest.vendor) :
                (Matches(lock.imports, dep) = 0) <=> (dep \in Range(added))
          /\ \A k \in DOMAIN new_entries :
                /\ IsImportOf(new_entries[k], added[k])
                /\ new_entries[k].commit = TipOf(added[k])
          /\ Range(retained) \subseteq Range(lock.imports)
    /\ ( pc = "prepare" /\ NoRepeatedUrl(manifest.vendor) ) =>
          /\ SameEntries(lock.imports, Entries)
          /\ wrote => lockfile.imports = lock.imports

\* A reconciliation that drops an import whose branch changed in the manifest
\* and looks the dependency up on its new branch.
C5_Witness ==
    /\ Reconciled
    /\ NoRepeatedUrl(manifest.vendor)
    /\ retained # <<>>
    /\ \E k \in DOMAIN new_entries :
          \E j \in DOMAIN lock.imports :
              /\ lock.imports[j].url = new_entries[k].url
              /\ lock.imports[j].branch # new_entries[k].branch

\* C6 as stated: install and update write the lock file only when the
\* resulting set of imports differs in content from the set the lock file
\* held.
C6_Original ==
    ( /\ pc = "prepare"
      /\ lock0.exists
      /\ SameEntries(lock.imports, lock0.imports) )
    => ~wrote

\* C7: an import is checked only after its checkout succeeded and copied only
\* after its check passed; when a step fails nothing follows it, the command
\* returns the error, nothing of that import is in the output tree and no
\* later import is processed.
C7_FailFast ==
    /\ \A k \in DOMAIN log :
          /\ log[k].op = "check" =>
                /\ k > 1
                /\ log[k - 1] = [op |-> "checkout", i |-> log[k].i, ok |-> TRUE]
          /\ log[k].op = "copy" =>
                /\ k > 1
                /\ log[k - 1] = [op |-> "check", i |-> log[k].i, ok |-> TRUE]
          /\ ~log[k].ok =>
                /\ k = Len(log)
                /\ Returned
                /\ result = Err(log[k].op)
                /\ idx = log[k].i
          /\ k > 1 => log[k].i >= log[k - 1].i
    /\ ( Returned /\ result \in {Err("checkout"), Err("check")} ) =>
          out = Vendored(SubSeq(lock.imports, 1, idx - 1))

\* A second import whose check reports a violation after the first import was
\* vendored.
C7_Witness ==
    /\ Returned
    /\ result = Err("check")
    /\ idx = 2
    /\ Len(lock.imports) = 2
    /\ out.files # {}
    /\ PinnedProtos(lock.imports[2]) # {}

\* C8: after a successful install or update the output directory exists and
\* every file in it was copied during that run from an import of the current
\* list; whatever it held before is gone.
C8_FullRebuild ==
    ( Returned /\ result = Ok ) =>
        /\ out.exists
        /\ \A f \in out.files :
              \E i \in DOMAIN lock.imports :
                  /\ f \in PinnedProtos(lock.imports[i])
                  /\ [op |-> "copy", i |-> i, ok |-> TRUE] \in Range(log)
        /\ \A f \in out0.files :
              f \in out.files => \E i \in DOMAIN lock.imports :
                                    f \in PinnedProtos(lock.imports[i])

\* A successful run on an output tree that held a file placed by hand and a
\* file of a commit the lock no longer pins.
C8_Witness ==
    /\ Returned
    /\ result = Ok
    /\ out.files # {}
    /\ \E f \in out0.files : f.content = ManualContent
    /\ \E f \in out0.files :
          /\ f.content # ManualContent
          /\ \A g \in out.files : g.dir # f.dir \/ g.name # f.name

\* C9: when reconciliation changed the import list and vendoring then fails,
\* the command returns the error, the lock file holds the complete new list,
\* sorted, and the output tree holds the files of the imports before the
\* failing one only.
C9_PartialFailure ==
    ( /\ Returned
      /\ result \in {Err("checkout"), Err("check"), Err("copy")}
      /\ Entries # mem0 )
    => /\ wrote
       /\ lockfile.exists
       /\ SameEntries(lockfile.imports, Entries)
       /\ \A i, j \in DOMAIN lockfile.imports :
             i < j => ~StrLess(lockfile.imports[j].url, lockfile.imports[i].url)
       /\ lockfile.imports = lock.imports
       /\ idx \in DOMAIN lock.imports
       /\ out = Vendored(SubSeq(lock.imports, 1, idx - 1))

\* A run that resolved a new import, replaced what the output tree held and
\* failed at its second import.
C9_Witness ==
    /\ Returned
    /\ result \in {Err("checkout"), Err("check"), Err("copy")}
    /\ Entries # mem0
    /\ new_entries # <<>>
    /\ idx = 2
    /\ lockfile # lock0
    /\ out # out0
    /\ out.files # {}

\* The revision names a commit the branch holds on the remote.
OnRemote(u, b, rev) ==
    /\ tip[GitUrl[u].repo][b] > 0
    /\ \/ rev = HeadRev
       \/ /\ rev.repo = GitUrl[u].repo
          /\ rev.branch = b
          /\ rev.n \in 1..tip[GitUrl[u].repo][b]

\* C10 as stated: whatever the cache directory held before, a checkout of a
\* revision the remote holds, with the remote reachable, succeeds and leaves a
\* clean working copy at that revision.
C10_Original ==
    ( /\ git.called
      /\ GitUrl[git.url].repo \in up
      /\ OnRemote(git.url, git.branch, git.rev) )
    => /\ git.ok
       /\ cache[GitUrl[git.url].destination_path].kind = "repo"
       /\ ~cache[GitUrl[git.url].destination_path].dirty
       /\ cache[GitUrl[git.url].destination_path].head =
             IF git.rev = HeadRev
             THEN Commit(GitUrl[git.url].repo, git.branch,
                         tip[GitUrl[git.url].repo][git.branch])
             ELSE git.rev

\* update has reconciled: every added entry is resolved.
UpdateReconciled ==
    /\ Reconciled
    /\ cmd.name = "update"

\* The part of C11 that does not depend on how often an import is listed:
\* `update <url>` looks up every manifest dependency of that url, `update`
\* looks up every manifest dependency and retains nothing, and every lookup
\* yields the commit at the tip of the branch.
FreshLookups ==
    /\ \A k \in DOMAIN new_entries :
          /\ IsImportOf(new_entries[k], added[k])
          /\ new_entries[k].commit = TipOf(added[k])
    /\ cmd.url # NoUrl =>
          \A dep \in Range(manifest.vendor) :
              dep.url = cmd.url =>
                  Occurrences(added, dep) = Occurrences(manifest.vendor, dep)
    /\ cmd.url = NoUrl =>
          /\ added = manifest.vendor
          /\ retained = <<>>

\* C11 as stated: update looks up the dependencies it cleared, and
\* `update <url>` keeps the pinned commit of every import of another url that
\* matches a manifest dependency.
C11_Original ==
    UpdateReconciled =>
        /\ FreshLookups
        /\ cmd.url # NoUrl =>
              \A j \in DOMAIN lock0.imports :
                  ( /\ lock0.imports[j].url # cmd.url
                    /\ \E dep \in Range(manifest.vendor) :
                          IsImportOf(lock0.imports[j], dep) )
                  => lock0.imports[j] \in Range(retained)

\* C11 amended: of the imports of another url, `update <url>` keeps the
\* pinned commit of the first import of each url and branch that a manifest
\* dependency matches; a further import of the same url and branch is kept
\* only if the manifest lists the dependency again.
C11_Reresolved ==
    UpdateReconciled =>
        /\ FreshLookups
        /\ cmd.url # NoUrl =>
              \A j \in DOMAIN lock0.imports :
                  ( /\ lock0.imports[j].url # cmd.url
                    /\ \E dep \in Range(manifest.vendor) :
                          /\ IsImportOf(lock0.imports[j], dep)
                          /\ Matches(SubSeq(lock0.imports, 1, j - 1), dep) = 0 )
                  => lock0.imports[j] \in Range(retained)

\* `update <url>` replaces the commit the lock pinned for that url by the tip
\* of the branch and keeps the import of another url.
C11_Witness ==
    /\ UpdateReconciled
    /\ cmd.url # NoUrl
    /\ retained # <<>>
    /\ \E k \in DOMAIN new_entries :
          \E j \in DOMAIN lock0.imports :
              /\ new_entries[k].url = cmd.url
              /\ IsImportOf(lock0.imports[j], added[k])
              /\ lock0.imports[j].commit # new_entries[k].commit

\* The list is in ascending order of url.
SortedByUrl(imports) ==
    \A i, j \in DOMAIN imports :
        i < j => ~StrLess(imports[j].url, imports[i].url)

\* C12: a command that wrote the lock file left it sorted by url, with the
\* time of the write as `updated`, later than the time the file held before;
\* and a lock file that carries a time of the tool's clock, whichever of
\* init, install and update wrote it last, is sorted by url.
C12_SortedWrite ==
    /\ wrote =>
          /\ lockfile.exists
          /\ SortedByUrl(lockfile.imports)
          /\ lockfile.updated = now - 1
          /\ lockfile.updated > lock0.updated
    /\ ( lockfile.exists /\ lockfile.updated > 0 ) =>
          SortedByUrl(lockfile.imports)

\* A write of two imports that reconciliation produced in descending order of
\* url.
C12_Witness ==
    /\ wrote
    /\ pc = "prepare"
    /\ Len(Entries) = 2
    /\ StrLess(Entries[2].url, Entries[1].url)
    /\ lockfile.imports = << Entries[2], Entries[1] >>

\* C13: the manifest that init created and add operations changed holds at
\* most one dependency per url.
C13_OnePerUrl ==
    manifest.exists =>
        /\ ~manifest.vendor_null
        /\ \A i, j \in DOMAIN manifest.vendor :
              manifest.vendor[i].url = manifest.vendor[j].url => i = j

\* The manifest after init, an add of a url, an add of a second url and an
\* add of the first url with another branch.
C13_Witness ==
    /\ Returned
    /\ cmd.name = "add"
    /\ result = Ok
    /\ wrote_yml
    /\ Len(manifest0.vendor) = 2
    /\ Len(manifest.vendor) = 2
    /\ manifest # manifest0

\* The url an entry of a manifest or lock file declares: its url, or the ssh
\* url of its host and repo.
EntryUrl(e) ==
    IF "url" \in DOMAIN e THEN e.url
    ELSE <<"g", "i", "t", "@">> \o e.host \o <<":">> \o e.repo
            \o <<".", "g", "i", "t">>

\* The dependencies a manifest file declares.
Declared(f) ==
    [i \in DOMAIN f.vendor |->
        [url |-> EntryUrl(f.vendor[i]), branch |-> f.vendor[i].branch]]

\* add has returned Ok.
Added ==
    /\ Returned
    /\ cmd.name = "add"
    /\ result = Ok

\* add(url, branch) found the url with another branch only: one entry has
\* that branch now, nothing else changed.
BranchReplaced ==
    /\ Len(manifest.vendor) = Len(manifest0.vendor)
    /\ Dependency(cmd.url, cmd.branch) \in Range(manifest.vendor)
    /\ \A dep \in Range(Declared(manifest0)) \cup Range(manifest.vendor) :
          dep.url # cmd.url =>
              Occurrences(manifest.vendor, dep) =
                  Occurrences(Declared(manifest0), dep)
    /\ Cardinality({ i \in DOMAIN manifest.vendor :
                        manifest.vendor[i].url = cmd.url })
          = Cardinality({ i \in DOMAIN manifest0.vendor :
                             Declared(manifest0)[i].url = cmd.url })

\* C14 as stated: add of a dependency the manifest holds changes nothing and
\* does not write the file; add of a url the manifest holds with another
\* branch replaces the branch of that entry only.
C14_Original ==
    Added =>
        /\ Dependency(cmd.url, cmd.branch) \in Range(Declared(manifest0)) =>
              /\ ~wrote_yml
              /\ manifest = manifest0
        /\ ( /\ Dependency(cmd.url, cmd.branch) \notin Range(Declared(manifest0))
             /\ \E dep \in Range(Declared(manifest0)) : dep.url = cmd.url )
           => BranchReplaced

\* C14 amended: the same, for a manifest that holds at most one dependency
\* per url.
C14_Idempotent ==
    ( Added /\ NoRepeatedUrl(Declared(manifest0)) ) =>
        /\ Dependency(cmd.url, cmd.branch) \in Range(Declared(manifest0)) =>
              /\ ~wrote_yml
              /\ manifest = manifest0
        /\ ( /\ Dependency(cmd.url, cmd.branch) \notin Range(Declared(manifest0))
             /\ \E dep \in Range(Declared(manifest0)) : dep.url = cmd.url )
           => /\ BranchReplaced
              /\ wrote_yml

\* An add of a dependency that a manifest of two entries holds already.
C14_Witness ==
    /\ Added
    /\ NoRepeatedUrl(Declared(manifest0))
    /\ Len(manifest0.vendor) = 2
    /\ Dependency(cmd.url, cmd.branch) \in Range(Declared(manifest0))
    /\ ~wrote_yml

\* The command left the project, the cache and the output tree alone.
NothingDone ==
    /\ manifest = manifest0
    /\ ~wrote_yml
    /\ lockfile = lock0
    /\ ~wrote
    /\ out = out0
    /\ ~git.called
    /\ log = <<>>
    /\ new_entries = <<>>

\* C15: add, install and update in a project without a manifest file fail,
\* create neither the manifest nor the lock file, run no git operation and
\* leave the output tree alone.
C15_NoManifest ==
    ( /\ cmd.name \in {"add", "install", "update"}
      /\ ~manifest0.exists )
    => /\ Returned
       /\ result = Err("load")
       /\ ~manifest.exists
       /\ lock0.exists = lockfile.exists
       /\ NothingDone

\* An update in a directory that holds a lock file with an import and no
\* manifest.
C15_Witness ==
    /\ Returned
    /\ cmd.name = "update"
    /\ ~manifest0.exists
    /\ lock0.exists
    /\ lock0.imports # <<>>
    /\ result = Err("load")

\* C16 as stated: init in a project whose manifest file exists succeeds,
\* leaves the manifest as it is and creates or changes no other file, the
\* lock file included.
C16_Original ==
    ( /\ Returned
      /\ cmd.name = "init"
      /\ manifest0.exists )
    => /\ result = Ok
       /\ manifest = manifest0
       /\ ~wrote_yml
       /\ lockfile = lock0
       /\ ~wrote
       /\ out = out0


\* The import whose copy step was the last step taken, or 0.
JustCopied ==
    IF log # <<>> /\ log[Len(log)].op = "copy" /\ log[Len(log)].ok
    THEN log[Len(log)].i
    ELSE 0

\* The file is at or below the directory p of a tree.
Below(f, p) ==
    \/ f.dir = p
    \/ /\ Len(f.dir) > Len(p)
       /\ SubSeq(f.dir, 1, Len(p) + 1) = p \o <<"/">>

\* The name ends in .proto.
ProtoName(name) ==
    /\ Len(name) >= 6
    /\ SubSeq(name, Len(name) - 5, Len(name)) = <<".", "p", "r", "o", "t", "o">>

\* The imports before position i that have the sanitised path of import i.
SharingPath(imports, i) ==
    { j \in 1..(i - 1) :
        GitUrl[imports[j].url].sanitised_path
            = GitUrl[imports[i].url].sanitised_path }

TooNew(f) ==
    f.exists /\ f.minver > CRATE_VERSION

\* C18 as stated: when the manifest or the lock file asks for a newer tool
\* than the running one, add, install and update fail and have looked up no
\* commit, cloned or updated no cache entry, written neither file and left
\* the output tree alone.
C18_Original ==
    ( /\ Returned
      /\ cmd.name \in {"add", "install", "update"}
      /\ TooNew(manifest0) \/ TooNew(lock0) )
    => /\ result \notin {Ok, NoResult}
       /\ NothingDone



(***************************************************************************)
(* The loaders and sanitised_path applied on their own                     *)
(***************************************************************************)

\* Repository names of legacy entries: "a/b" and "b".
LegacyRepos ==
    { <<"a", "/", "b">>, <<"b">> }

\* Entries {repo, host, branch} of a legacy manifest, host "h".
LegacyDependencies ==
    { [repo |-> r, host |-> <<"h">>, branch |-> b] :
        r \in LegacyRepos, b \in Branches }

\* Entries {repo, host, branch, commit} of a legacy lock.
LegacyImports ==
    { [repo |-> r, host |-> <<"h">>, branch |-> b,
       commit |-> Commit(GitUrl[U1].repo, "main", 1)] :
        r \in LegacyRepos, b \in Branches }

\* The lists of at most MaxDeps entries of a set.
ListsOf(S) ==
    UNION { [1..n -> S] : n \in 0..MaxDeps }

\* "git@h:b.git", which GIT_URL_PATTERN rejects: the path holds no '/'.
NoOwnerUrl ==
    <<"g", "i", "t", "@", "h", ":", "b", ".", "g", "i", "t">>

\* Entries {url, branch} of a current-format manifest and {url, branch,
\* commit} of a current-format lock, as a hand may have written them.
WrittenDependencies ==
    { Dependency(u, "main") : u \in {U1, NoOwnerUrl} }

WrittenImports ==
    { Import(u, "main", Commit(GitUrl[U1].repo, "main", 1)) :
        u \in {U1, NoOwnerUrl} }

\* Manifest documents: legacy ones, current ones and ones whose vendor is
\* null.
LoadedManifests ==
    { Manifest(v, l) : v \in {CRATE_VERSION, NewerVersion},
                       l \in ListsOf(LegacyDependencies)
                              \cup ListsOf(WrittenDependencies) }
      \cup { [exists |-> TRUE, minver |-> v, vendor |-> <<>>,
              vendor_null |-> TRUE] : v \in {CRATE_VERSION, NewerVersion} }

\* Lock documents: legacy ones and current ones.
LoadedLocks ==
    { LockFile(v, l) : v \in {CRATE_VERSION, NewerVersion},
                       l \in ListsOf(LegacyImports)
                              \cup ListsOf(WrittenImports) }

\* The strings "git@h:<c>/<d>.git" for characters c and d of the alphabet
\* that GitUrl::from_str accepts, as from_str returns them.
SanitisedUrls ==
    { from_str(s).url :
        s \in { t \in { <<"g", "i", "t", "@", "h", ":", Alphabet[c], "/",
                          Alphabet[d], ".", "g", "i", "t">> :
                        c \in DOMAIN Alphabet, d \in DOMAIN Alphabet } :
                from_str(t).ok } }

\* impl Display for GitUrl: write!(f, "{}", self.0) renders the stored string.
fmt(u) ==
    [k \in 1..Len(u) |-> u[k]]

\* The strings of the url grammar the model draws: a scheme, "://" or "@", a
\* host, ':' or '/', a path with an owner and a repository, ".git" and
\* nothing, a slash or a fragment.
GrammarSchemes ==
    { <<"g", "i", "t">>,
      <<"s", "s", "h">>,
      <<"h", "t", "t", "p">>,
      <<"h", "t", "t", "p", "s">> }

GrammarSeparators ==
    { <<":", "/", "/">>,
      <<"@">> }

GrammarHosts ==
    { <<"h">>,
      <<"h", ".", "x">>,
      <<"1", ".", "1">>,
      <<"u", "@", "h", ".", "x">>,
      <<"u", "@", "h", ".", "x", ":", "p">> }

GrammarPaths ==
    { <<"a", "/", "b">>,
      <<"u", "/", "s", "-", "p">>,
      <<"A", "/", "s", "_", "1">>,
      <<"p", "/", "a", "/", "b">>,
      <<"~", "u", "/", "a", "/", "b">> }

GrammarTails ==
    { <<>>,
      <<"/">>,
      <<"#", "f">>,
      <<"#", "A", "-", "1", ".", "_", "b">> }

ValidUrls ==
    { sc \o sp \o h \o c \o p \o <<".", "g", "i", "t">> \o t :
        sc \in GrammarSchemes, sp \in GrammarSeparators, h \in GrammarHosts,
        c \in { <<":">>, <<"/">> }, p \in GrammarPaths, t \in GrammarTails }

\* The strings of test_invalid_git_urls, with names of the alphabet: bare
\* paths, file:// and rsync://, forms without a scheme, a path segment or
\* characters after ".git".
InvalidUrls ==
    { <<"/", "p", "/", "a", "/", "b", ".", "g", "i", "t", "/">>,
      <<"f", "i", "l", "e", ":", "/", "/", "/", "p", "/", "a", "/", "b", ".", "g", "i", "t", "/">>,
      <<"f", "i", "l", "e", ":", "/", "/", "~", "/", "p", "/", "a", "/", "b", ".", "g", "i", "t", "/">>,
      <<"g", "i", "t", "@", "h", ".", "x", ":", "u", "/", "s", "_", "p", ".", "g", "i", "t", "/", "f">>,
      <<"g", "i", "t", "@", "h", ".", "x", ":", "u", "/", "s", "_", "p", ".", "g", "i", "t", "f">>,
      <<"h", ".", "x", ":", "/", "p", "/", "a", "/", "b", ".", "g", "i", "t", "/">>,
      <<"h", ".", "x", ":", "p", "/", "a", "/", "b", ".", "g", "i", "t">>,
      <<"h", ".", "x", ":", "~", "u", "/", "p", "/", "a", "/", "b", ".", "g", "i", "t", "/">>,
      <<"p", "/", "a", "/", "b", ".", "g", "i", "t", "/">>,
      <<"r", "s", "y", "n", "c", ":", "/", "/", "h", ".", "x", "/", "p", "/", "a", "/", "b", ".", "g", "i", "t", "/">>,
      <<"u", "@", "h", ".", "x", ":", "/", "p", "/", "a", "/", "b", ".", "g", "i", "t", "/">>,
      <<"u", "@", "h", ".", "x", ":", "p", "/", "a", "/", "b", ".", "g", "i", "t">>,
      <<"u", "@", "h", ".", "x", ":", "~", "u", "/", "p", "/", "a", "/", "b", ".", "g", "i", "t", "/">>,
      <<"~", "/", "p", "/", "a", "/", "b", ".", "g", "i", "t">> }

\* A few strings of the grammar as a shell may hand them over, with blanks
\* around them.
PaddedUrls ==
    { <<" ">> \o U1, U1 \o <<" ">>, <<" ", " ">> \o U2 \o <<" ">> }

ParsedStrings ==
    { [s |-> u, class |-> "valid"] : u \in ValidUrls }
      \cup { [s |-> u, class |-> "invalid"] : u \in InvalidUrls }
      \cup { [s |-> u, class |-> "padded"] : u \in PaddedUrls }

\* A file named ".proto": its name ends with ".proto" and Path::extension
\* gives None for it.
DotProto ==
    <<".", "p", "r", "o", "t", "o">>

\* The files the checked trees are made of: three in the proto root, one in
\* the directory of the first url of the model, one in another directory.
CheckedFiles ==
    { File(<<>>, XProto, ManualContent),
      File(<<>>, ReadmeTxt, ManualContent),
      File(<<>>, DotProto, ManualContent),
      File(GitUrl[U1].sanitised_path, XProto, ManualContent),
      File(<<"o">>, XProto, ManualContent) }

\* The checked trees: no proto root, or a proto root with some of the files
\* and perhaps the directory of the url with nothing in it.
CheckedTrees ==
    { ProtoTree(FALSE, {}, {}) }
      \cup { ProtoTree(TRUE, ds, fs) :
               ds \in { {}, { GitUrl[U1].sanitised_path } },
               fs \in SUBSET CheckedFiles }

\* Urls of repositories for which a cache directory is computed: hosts that
\* differ in punctuation only, paths that start with '/', and urls of
\* different paths.
CachedUrls ==
    { U1, U2,
      <<"g","i","t","@","h",".","x",":","a","/","b",".","g","i","t">>,
      <<"g","i","t","@","h","x",":","a","/","b",".","g","i","t">>,
      <<"g","i","t","@","h",":","/","b",".","g","i","t">>,
      <<"g","i","t","@","x",":","/","b",".","g","i","t">>,
      <<"s","s","h",":","/","/","h","/","a","/","b",".","g","i","t">>,
      <<"g","i","t","@","h",":","a","/","b",".","g","i","t","/">>,
      <<"g","i","t","@","h",":","A","/","b",".","g","i","t">>,
      <<"g","i","t","@","x",":","a","/","b","/","c",".","g","i","t">> }

InitFn ==
    /\ manifest = NoManifest
    /\ lockfile = NoFile
    /\ out = NoDir
    /\ cache = [k \in CacheKeys |-> AbsentEntry]
    /\ tip = [r \in Repos |-> [b \in Branches |-> 0]]
    /\ now = 1
    /\ pc = "idle"
    /\ cmd = NoCmd
    /\ up = {}
    /\ lock = NoLock
    /\ retained = <<>>
    /\ added = <<>>
    /\ new_entries = <<>>
    /\ idx = 0
    /\ result = NoResult
    /\ ncmd = 0
    /\ lock0 = NoFile
    /\ out0 = NoDir
    /\ mem0 = <<>>
    /\ wrote = FALSE
    /\ log = <<>>
    /\ git = NoGit
    /\ manifest0 = NoManifest
    /\ wrote_yml = FALSE
    /\ \/ \E f \in LoadedManifests : input = [fn |-> "load_config", file |-> f]
       \/ \E f \in LoadedLocks : input = [fn |-> "load_lockfile", file |-> f]
       \/ \E u \in SanitisedUrls : input = [fn |-> "sanitised_path", url |-> u]
       \/ \E t \in CheckedTrees :
             input = [fn |-> "run_checks", tree |-> t, url |-> U1]
       \/ \E u \in CachedUrls, v \in CachedUrls :
             input = [fn |-> "get_destination_path", url |-> u, other |-> v]
       \/ \E x \in ParsedStrings :
             input = [fn |-> "from_str", s |-> x.s, class |-> x.class]
    /\ output = NoCall
    /\ peer = NoPeer

\* The function is applied to the argument, once.
Apply(fn, value) ==
    /\ input.fn = fn
    /\ output = NoCall
    /\ output' = [fn |-> fn, value |-> value]
    /\ UNCHANGED << manifest, lockfile, out, cache, tip, now, pc, cmd, up,
                    lock, retained, added, new_entries, idx, result, ncmd,
                    lock0, out0, mem0, wrote, log, git, manifest0, wrote_yml,
                    input, peer >>

apply_load_config ==
    /\ input.fn = "load_config"
    /\ Apply("load_config", load_config(input.file))

apply_load_lockfile ==
    /\ input.fn = "load_lockfile"
    /\ Apply("load_lockfile", load_lockfile(input.file))

apply_sanitised_path ==
    /\ input.fn = "sanitised_path"
    /\ Apply("sanitised_path", sanitised_path(input.url))

\* GitUrl::from_str and, when it returned Ok, Display of the GitUrl.
apply_from_str ==
    /\ input.fn = "from_str"
    /\ Apply("from_str",
             LET parsed == from_str(input.s)
             IN  [ok |-> parsed.ok,
                  rendered |-> IF parsed.ok THEN fmt(parsed.url) ELSE <<>>])

apply_run_checks ==
    /\ input.fn = "run_checks"
    /\ Apply("run_checks", run_checks(input.tree, input.url))

\* get_destination_path, for the urls of two dependencies
apply_get_destination_path ==
    /\ input.fn = "get_destination_path"
    /\ Apply("get_destination_path",
             << get_destination_path(input.url),
                get_destination_path(input.other) >>)

NextFn ==
    \/ apply_load_config
    \/ apply_load_lockfile
    \/ apply_sanitised_path
    \/ apply_from_str
    \/ apply_run_checks
    \/ apply_get_destination_path

SpecFn ==
    InitFn /\ [][NextFn]_vars

\* The current-format entry with the url "git@{host}:{repo}.git" and the
\* other fields of the legacy entry e.
UrlEntry(e) ==
    IF "url" \in DOMAIN e THEN e
    ELSE [ k \in (DOMAIN e \ {"repo", "host"}) \cup {"url"} |->
             IF k = "url"
             THEN <<"g", "i", "t", "@">> \o e.host \o <<":">> \o e.repo
                     \o <<".", "g", "i", "t">>
             ELSE e[k] ]

\* The current-format document that describes what the loaded document does:
\* url entries for legacy entries, an empty list for a null vendor; the
\* version (and the time of a lock) are the same.
CurrentForm(f) ==
    IF "vendor" \in DOMAIN f
    THEN [f EXCEPT !.vendor = [i \in DOMAIN f.vendor |-> UrlEntry(f.vendor[i])],
                   !.vendor_null = FALSE]
    ELSE [f EXCEPT !.imports = [i \in DOMAIN f.imports |-> UrlEntry(f.imports[i])]]

\* C19 as stated: a legacy manifest or lock loads to what the current-format
\* document with the urls "git@{host}:{repo}.git", the same branches (and
\* commits), the same version and the same time loads to, and a manifest whose
\* vendor is null loads to what the manifest with an empty list loads to.
C19_Original ==
    /\ output.fn = "load_config" =>
          output.value = load_config(CurrentForm(input.file))
    /\ output.fn = "load_lockfile" =>
          output.value = load_lockfile(CurrentForm(input.file))

\* The characters the sanitised path may hold: lower-case ASCII letters, ASCII
\* digits and '/'.
SanitisedAlphabet ==
    { "a", "b", "c", "d", "e", "f", "g", "h", "i", "j", "k", "l", "m", "n",
      "o", "p", "q", "r", "s", "t", "u", "v", "w", "x", "y", "z",
      "0", "1", "2", "3", "4", "5", "6", "7", "8", "9", "/" }

\* C20 as stated: whatever the path of a GitUrl holds, its sanitised path is
\* made of lower-case ASCII letters, ASCII digits and '/' only.
C20_Original ==
    output.fn = "sanitised_path" =>
        \A k \in DOMAIN output.value : output.value[k] \in SanitisedAlphabet



\* C21: GitUrl::from_str succeeds on every string of the url grammar and the
\* GitUrl renders back to that same string; it fails on every string of the
\* invalid set.
C21_Parse ==
    output.fn = "from_str" =>
        /\ input.class = "valid" =>
              /\ output.value.ok
              /\ output.value.rendered = input.s
        /\ input.class = "invalid" => ~output.value.ok

\* A url of the grammar with a user, a port and a fragment was parsed and
\* rendered.
C21_Witness ==
    /\ output.fn = "from_str"
    /\ input.class = "valid"
    /\ Len(input.s) > 25
    /\ input.s[Len(input.s)] = "b"
    /\ output.value.ok
    /\ output.value.rendered = input.s



\* C22 as stated: once an import with sanitised path p is copied, every .proto
\* file its pinned tree has anywhere below the proto root, also outside
\* proto/p, has a copy of the same name and content at or below p in the
\* output tree.
C22_Original ==
    JustCopied # 0 =>
        LET import == lock.imports[JustCopied]
            p == GitUrl[import.url].sanitised_path
        IN  \A f \in Tree(import.commit) :
                ProtoName(f.name) =>
                    \E g \in out.files : /\ Below(g, p)
                                         /\ g.name = f.name
                                         /\ g.content = f.content

\* C22, amended: once an import with sanitised path p is copied, every .proto
\* file its pinned tree has at or below proto/p is in the output tree at the
\* same path below the output root as below the proto root, and no file the
\* pinned tree has elsewhere below the proto root has a copy anywhere in the
\* output tree.
C22_OwnSubtree ==
    JustCopied # 0 =>
        LET import == lock.imports[JustCopied]
            p == GitUrl[import.url].sanitised_path
        IN  \A f \in Tree(import.commit) :
                /\ ( ProtoName(f.name) /\ Below(f, p) ) => f \in out.files
                /\ ~Below(f, p) =>
                      ~\E g \in out.files : /\ g.name = f.name
                                            /\ g.content = f.content

\* An import was copied whose pinned tree has a .proto file in a directory of
\* the proto root other than proto/p, and files of that commit are in the
\* output tree.
C22_Witness ==
    /\ JustCopied # 0
    /\ LET import == lock.imports[JustCopied]
           p == GitUrl[import.url].sanitised_path
       IN  /\ \E f \in Tree(import.commit) :
                 /\ ProtoName(f.name)
                 /\ ~Below(f, p)
                 /\ f.dir # <<>>
           /\ \E g \in out.files : g.content = import.commit



\* C23 as stated: every GitUrl the program holds matches the url pattern,
\* whether GitUrl::from_str built it or a manifest or a lock file was loaded
\* with it.
C23_Original ==
    /\ ( output.fn = "from_str" /\ output.value.ok ) =>
          IsGitUrl(output.value.rendered)
    /\ ( output.fn = "load_config" /\ output.value.ok ) =>
          \A k \in DOMAIN output.value.config.vendor :
              IsGitUrl(output.value.config.vendor[k].url)
    /\ ( output.fn = "load_lockfile" /\ output.value.ok ) =>
          \A k \in DOMAIN output.value.lock.imports :
              IsGitUrl(output.value.lock.imports[k].url)



\* The entries of a manifest or lock document.
DocumentEntries(f) ==
    IF "vendor" \in DOMAIN f THEN f.vendor ELSE f.imports

\* A legacy entry whose repo holds no '/': "git@{host}:{repo}.git" is no url
\* of the grammar.
NoOwner(e) ==
    /\ "repo" \in DOMAIN e
    /\ \A k \in DOMAIN e.repo : e.repo[k] # "/"

\* C24 as stated: the load of a legacy manifest or lock with an entry whose
\* host and repo give no url of the grammar returns an error to the caller,
\* as a load error does; it does not end the program in another way and
\* accepts no part of the document.
C24_Original ==
    ( /\ output.fn \in {"load_config", "load_lockfile"}
      /\ \E k \in DOMAIN DocumentEntries(input.file) :
            NoOwner(DocumentEntries(input.file)[k]) )
    => output.value = [ok |-> FALSE, panic |-> FALSE]



\* The tree has a directory at the path p below the proto root.
HasDirectory(t, p) ==
    \/ \E f \in t.files : Below(f, p)
    \/ \E d \in t.dirs : Below([dir |-> d], p)

\* C25 as stated: run_checks reports P002 exactly when the proto root has no
\* directory at the sanitised path of the url, also when the proto root holds
\* nothing or does not exist; it reports P001 when a file with a name of the
\* form <stem>.proto lies directly in the proto root and only when a file
\* whose name ends in .proto does; and it fails exactly when it reports a
\* violation.
C25_Original ==
    output.fn = "run_checks" =>
        LET t == input.tree
            p == GitUrl[input.url].sanitised_path
        IN  /\ "P002" \in output.value.violations <=> ~HasDirectory(t, p)
            /\ ( \E f \in t.files : /\ f.dir = <<>>
                                    /\ ProtoName(f.name)
                                    /\ Len(f.name) > 6 )
                  => "P001" \in output.value.violations
            /\ "P001" \in output.value.violations
                  => \E f \in t.files : f.dir = <<>> /\ ProtoName(f.name)
            /\ ~output.value.ok <=> output.value.violations # {}



\* C26 as stated: two urls that differ in host or in path are given different
\* cache directories by get_destination_path.
C26_Original ==
    ( /\ output.fn = "get_destination_path"
      /\ << host(input.url), path(input.url) >>
            # << host(input.other), path(input.other) >> )
    => output.value[1] # output.value[2]



(***************************************************************************)
(* Two instances of the tool that share REPOS_CACHE_DIRECTORY              *)
(***************************************************************************)

\* What no step of the second instance changes.
PeerLeaves ==
    << manifest, lockfile, out, tip, now, pc, cmd, up, lock, retained, added,
       new_entries, idx, result, ncmd, lock0, out0, mem0, wrote, log, git,
       manifest0, wrote_yml, input, output >>

\* The second instance in ProtovendLock::vendor: its output directory is
\* emptied.
peer_vendor ==
    /\ peer.pc = "prepare"
    /\ peer' = IF peer.imports = <<>>
               THEN [peer EXCEPT !.out = prepare_output_directory,
                                 !.pc = "idle", !.result = Ok]
               ELSE [peer EXCEPT !.out = prepare_output_directory,
                                 !.pc = "checkout", !.idx = 1]
    /\ UNCHANGED << PeerLeaves, cache >>

\* The second instance in vendor_import: git::get_repo on the shared cache
peer_checkout ==
    /\ peer.pc = "checkout"
    /\ LET import == peer.imports[peer.idx]
           key == GitUrl[import.url].destination_path
           got == get_repo(cache[key], import.url, import.branch, import.commit)
       IN  /\ cache' = [cache EXCEPT ![key] = got.entry]
           /\ peer' = IF got.ok
                      THEN [peer EXCEPT !.pc = "check"]
                      ELSE [peer EXCEPT !.pc = "idle",
                                        !.result = Err("checkout")]
    /\ UNCHANGED PeerLeaves

\* The second instance in vendor_import: check::run_checks
peer_check ==
    /\ peer.pc = "check"
    /\ LET import == peer.imports[peer.idx]
           key == GitUrl[import.url].destination_path
           res == run_checks(CheckedOut(WorkTree(cache[key])), import.url)
       IN  peer' = IF res.ok
                   THEN [peer EXCEPT !.pc = "copy"]
                   ELSE [peer EXCEPT !.pc = "idle", !.result = Err("check")]
    /\ UNCHANGED << PeerLeaves, cache >>

\* The second instance in vendor_import: find_and_copy_protos into its own
\* output directory, then the next import of its lock.
peer_copy ==
    /\ peer.pc = "copy"
    /\ LET import == peer.imports[peer.idx]
           key == GitUrl[import.url].destination_path
           res == find_and_copy_protos(WorkTree(cache[key]),
                                       GitUrl[import.url].sanitised_path,
                                       peer.out)
       IN  peer' = IF ~res.ok
                   THEN [peer EXCEPT !.out = res.out, !.pc = "idle",
                                     !.result = Err("copy")]
                   ELSE IF peer.idx < Len(peer.imports)
                   THEN [peer EXCEPT !.out = res.out, !.pc = "checkout",
                                     !.idx = @ + 1]
                   ELSE [peer EXCEPT !.out = res.out, !.pc = "idle",
                                     !.idx = @ + 1, !.result = Ok]
    /\ UNCHANGED << PeerLeaves, cache >>

\* The locks of the second project: the first url pinned at either commit of
\* main, alone or with the second url.
PeerLocks ==
    { << Import(U1, "main", Commit(GitUrl[U1].repo, "main", n)) >> :
        n \in 1..MaxTip }
      \cup { << Import(U1, "main", Commit(GitUrl[U1].repo, "main", n)),
                Import(U2, "main", Commit(GitUrl[U2].repo, "main", 1)) >> :
             n \in 1..MaxTip }

\* Two projects that depend on main of the first url, each with its own lock;
\* main has MaxTip commits, the cache is empty, the second instance is about
\* to vendor.
InitRace ==
    /\ manifest = Manifest(CRATE_VERSION, << Dependency(U1, "main") >>)
    /\ \E n \in 1..MaxTip :
          lockfile = LockFile(CRATE_VERSION,
                        << Import(U1, "main",
                                  Commit(GitUrl[U1].repo, "main", n)) >>)
    /\ out = NoDir
    /\ cache = [k \in CacheKeys |-> AbsentEntry]
    /\ tip = [r \in Repos |-> [b \in Branches |->
                IF b = "main" /\ r = GitUrl[U1].repo THEN MaxTip
                ELSE IF \E d \in Deps : GitUrl[d.url].repo = r /\ d.branch = b
                THEN 1 ELSE 0]]
    /\ now = 1
    /\ pc = "idle"
    /\ cmd = NoCmd
    /\ up = Repos
    /\ lock = NoLock
    /\ retained = <<>>
    /\ added = <<>>
    /\ new_entries = <<>>
    /\ idx = 0
    /\ result = NoResult
    /\ ncmd = 0
    /\ lock0 = NoFile
    /\ out0 = NoDir
    /\ mem0 = <<>>
    /\ wrote = FALSE
    /\ log = <<>>
    /\ git = NoGit
    /\ manifest0 = NoManifest
    /\ wrote_yml = FALSE
    /\ input = NoCall
    /\ output = NoCall
    /\ \E l \in PeerLocks :
          peer = [NoPeer EXCEPT !.pc = "prepare", !.imports = l]

\* The first instance runs install, the second vendors.
NextRace ==
    \/ install
    \/ update_imports
    \/ vendor
    \/ checkout
    \/ check
    \/ copy
    \/ peer_vendor
    \/ peer_checkout
    \/ peer_check
    \/ peer_copy

SpecRace ==
    InitRace /\ [][NextRace]_vars

\* The commits the imports of a list pin in the cache directory of url u.
PinnedAt(imports, u) ==
    { imports[i].commit : i \in { j \in DOMAIN imports :
          GitUrl[imports[j].url].destination_path
              = GitUrl[u].destination_path } }

\* The files of an output tree below the sanitised path of an import come from
\* a commit in the set.
ComesFrom(tree, import, commits) ==
    \A f \in tree.files :
        Below(f, GitUrl[import.url].sanitised_path) => f.content \in commits

\* C27: nothing keeps the steps of two installs on one cache directory
\* apart. Between the checkout and the copy of an import the other instance
\* may check out its own pinned commit there, so the files an instance copies
\* for an import come from the commit its lock pins or from a commit the
\* lock of the other instance pins in the same cache directory, and from no
\* other commit.
C27_Race ==
    /\ \A i \in DOMAIN lock.imports :
          ComesFrom(out, lock.imports[i],
                    PinnedAt(lock.imports, lock.imports[i].url)
                        \cup PinnedAt(peer.imports, lock.imports[i].url))
    /\ \A i \in DOMAIN peer.imports :
          ComesFrom(peer.out, peer.imports[i],
                    PinnedAt(peer.imports, peer.imports[i].url)
                        \cup PinnedAt(lockfile.imports, peer.imports[i].url))

\* An install ended with Ok whose lock pins one commit of the first url and
\* whose output tree holds a file of another commit, the one the lock of the
\* second instance pins.
C27_Witness ==
    /\ Returned
    /\ cmd.name = "install"
    /\ result = Ok
    /\ Len(lock.imports) = 1
    /\ \E f \in out.files :
          /\ f.content # lock.imports[1].commit
          /\ f.content \in PinnedAt(peer.imports, lock.imports[1].url)



\* C28 as stated: after a successful install or update the lock file holds
\* the same set of (url, branch, commit) entries as the list the command
\* vendored (a project without a lock file has no entry on disk).
C28_Original ==
    ( /\ Returned
      /\ cmd.name \in {"install", "update"}
      /\ result = Ok )
    => Range(lockfile.imports) = Range(lock.imports)



(***************************************************************************)
(* A project that depends on one owner/repo path on two hosts              *)
(***************************************************************************)

\* The two remotes of the project.
TwoHosts ==
    { GitUrl[U1].repo, GitUrl[U3].repo }

\* The manifest lists main of both urls; the lock is missing or pins one or
\* both of them; main has one commit on both remotes; the cache is empty.
InitTwoHosts ==
    /\ manifest = Manifest(CRATE_VERSION,
                           << Dependency(U1, "main"), Dependency(U3, "main") >>)
    /\ lockfile \in
          { NoFile,
            LockFile(CRATE_VERSION,
                     << Import(U1, "main", Commit(GitUrl[U1].repo, "main", 1)) >>),
            LockFile(CRATE_VERSION,
                     << Import(U1, "main", Commit(GitUrl[U1].repo, "main", 1)),
                        Import(U3, "main", Commit(GitUrl[U3].repo, "main", 1)) >>) }
    /\ out = NoDir
    /\ cache = [k \in { GitUrl[U1].destination_path,
                        GitUrl[U3].destination_path } |-> AbsentEntry]
    /\ tip = [r \in TwoHosts |-> [b \in Branches |->
                IF b = "main" THEN 1 ELSE 0]]
    /\ now = 1
    /\ pc = "idle"
    /\ cmd = NoCmd
    /\ up = {}
    /\ lock = NoLock
    /\ retained = <<>>
    /\ added = <<>>
    /\ new_entries = <<>>
    /\ idx = 0
    /\ result = NoResult
    /\ ncmd = 0
    /\ lock0 = NoFile
    /\ out0 = NoDir
    /\ mem0 = <<>>
    /\ wrote = FALSE
    /\ log = <<>>
    /\ git = NoGit
    /\ manifest0 = NoManifest
    /\ wrote_yml = FALSE
    /\ input = NoCall
    /\ output = NoCall
    /\ peer = NoPeer

\* install and update of the project, with some of the two remotes in reach
install_two_hosts ==
    \E reach \in SUBSET TwoHosts : Begin("install", NoUrl, reach)

update_two_hosts ==
    \E url \in {U1, U3, NoUrl}, reach \in SUBSET TwoHosts :
        Begin("update", url, reach)

NextTwoHosts ==
    \/ install_two_hosts
    \/ update_two_hosts
    \/ to_import
    \/ update_imports
    \/ vendor
    \/ checkout
    \/ check
    \/ copy

SpecTwoHosts ==
    InitTwoHosts /\ [][NextTwoHosts]_vars

\* The paths below the output root at which the files of an import are put.
OutputPaths(import) ==
    { << f.dir, f.name >> : f \in PinnedProtos(import) }

\* C29 as stated: in a run that vendored every import of the lock, no two
\* imports at different positions of the list put a file at the same path of
\* the output tree.
C29_Original ==
    ( /\ Returned
      /\ cmd.name \in {"install", "update"}
      /\ result = Ok )
    => \A i \in DOMAIN lock.imports : \A j \in DOMAIN lock.imports :
          i # j => OutputPaths(lock.imports[i])
                      \cap OutputPaths(lock.imports[j]) = {}


(***************************************************************************)
(* cleanup (src/lib.rs)                                                    *)
(***************************************************************************)

\* The cache directories below REPOS_CACHE_DIRECTORY.
BelowCacheRoot(k) ==
    IsPrefix(REPOS_CACHE_DIRECTORY \o <<"/">>, k)

\* Path::exists of REPOS_CACHE_DIRECTORY: nothing but the create_dir_all of
\* git::clone makes the directory, and it makes it together with the cache
\* directory of a url, which stays when the clone fails.
CacheRootExists(c) ==
    \E k \in DOMAIN c : BelowCacheRoot(k) /\ c[k].kind # "absent"

\* fs::remove_dir_all(REPOS_CACHE_DIRECTORY): the directory and all below it
\* are removed; a directory that does not exist is an io error.
remove_dir_all(c) ==
    IF ~CacheRootExists(c)
    THEN [ok |-> FALSE, cache |-> c]
    ELSE [ok |-> TRUE,
          cache |-> [k \in DOMAIN c |->
                        IF BelowCacheRoot(k) THEN AbsentEntry ELSE c[k]]]

\* lib::cleanup: fs::remove_dir_all(REPOS_CACHE_DIRECTORY.as_path())?; Ok(())
cleanup ==
    /\ pc = "idle"
    /\ ncmd < MaxOps
    /\ cmd' = [name |-> "cleanup", url |-> NoUrl]
    /\ cache' = remove_dir_all(cache).cache
    /\ Return(IF remove_dir_all(cache).ok THEN Ok ELSE Err("cleanup"))
    /\ up' = {}
    /\ lock' = NoLock
    /\ retained' = <<>>
    /\ added' = <<>>
    /\ new_entries' = <<>>
    /\ idx' = 0
    /\ mem0' = <<>>
    /\ log' = <<>>
    /\ git' = NoGit
    /\ manifest0' = manifest
    /\ lock0' = lockfile
    /\ out0' = out
    /\ wrote' = FALSE
    /\ wrote_yml' = FALSE
    /\ UNCHANGED << manifest, lockfile, out, tip, now, call >>

\* The lock of a project whose first dependency was installed.
InstalledLock ==
    LockFile(CRATE_VERSION,
             << Import(U1, "main", Commit(GitUrl[U1].repo, "main", 1)) >>)

\* A project whose manifest lists up to MaxDeps dependencies, either before
\* its first install (no lock, no output, no cache) or, when it depends on
\* main of the first url alone, after that install.
InitCleanup ==
    /\ manifest \in { Manifest(CRATE_VERSION, v) : v \in SeqsUpTo(Deps, MaxDeps) }
    /\ \/ /\ lockfile = NoFile
          /\ out = NoDir
          /\ cache = [k \in CacheKeys |-> AbsentEntry]
       \/ /\ manifest.vendor = << Dependency(U1, "main") >>
          /\ lockfile = InstalledLock
          /\ out = Vendored(InstalledLock.imports)
          /\ cache = [k \in CacheKeys |->
                        IF k = GitUrl[U1].destination_path
                        THEN RepoEntry(GitUrl[U1].repo,
                                       Commit(GitUrl[U1].repo, "main", 1), FALSE)
                        ELSE AbsentEntry]
    /\ tip = [r \in Repos |-> [b \in Branches |->
                IF \E d \in Deps : GitUrl[d.url].repo = r /\ d.branch = b
                THEN 1 ELSE 0]]
    /\ now = 1
    /\ pc = "idle"
    /\ cmd = NoCmd
    /\ up = {}
    /\ lock = NoLock
    /\ retained = <<>>
    /\ added = <<>>
    /\ new_entries = <<>>
    /\ idx = 0
    /\ result = NoResult
    /\ ncmd = 0
    /\ lock0 = NoFile
    /\ out0 = NoDir
    /\ mem0 = <<>>
    /\ wrote = FALSE
    /\ log = <<>>
    /\ git = NoGit
    /\ manifest0 = NoManifest
    /\ wrote_yml = FALSE
    /\ input = NoCall
    /\ output = NoCall
    /\ peer = NoPeer

NextCleanup ==
    \/ cleanup
    \/ install
    \/ to_import
    \/ update_imports
    \/ vendor
    \/ checkout
    \/ check
    \/ copy

SpecCleanup ==
    InitCleanup /\ [][NextCleanup]_vars

\* C30 as stated: cleanup succeeds and leaves no cache root, whether or not
\* the cache root existed before it ran, and the manifest, the lock file and
\* the output tree are as they were.
C30_Original ==
    ( Returned /\ cmd.name = "cleanup" )
    => /\ result = Ok
       /\ ~CacheRootExists(cache)
       /\ manifest = manifest0
       /\ lockfile = lock0
       /\ out = out0

====
